---- MODULE Spec2Model ----
(***************************************************************************)
(* Release-delivery pipeline of the GitHub release -> Telegram bot:        *)
(* webhook boundary (signature middleware + release handler), notification *)
(* orchestrator, delivery client, poll scheduler, dedup ledger and the     *)
(* repository directory with its push-registration status.                 *)
(*                                                                         *)
(* Node runs one callback at a time, so every action below is one          *)
(* synchronous run of code between two awaits.                             *)
(***************************************************************************)
EXTENDS Integers, Sequences, FiniteSets, TLC

(***************************************************************************)
(* Bounds of the model                                                     *)
(***************************************************************************)
NumRepos == 2
MaxReleaseId == 1
NumHandlers == 1
NumPollers == 1
MaxParts == 2
MaxClock == 1
MaxCycles == 2
MaxDeliveries == 2
\* processed_releases rows kept by cleanupOldReleases; the code keeps 1000
\* (LIMIT 1000), the model scales the limit down so that pruning happens.
RetentionLimit == 1
MaxNameLength == 2
MaxPatternLength == 2
MaxPatterns == 1
\* stands for MAX_MESSAGE_LENGTH = 4096, scaled so that texts can exceed it
MaxMessageLength == 4
MaxTextLength == 9
\* provider answers prepared for one sendSingleMessage call
MaxAnswers == 4
\* hooks in one answer of GET /repos/:owner/:repo/hooks
MaxHooks == 2
MaxNewlineGap == 2
MaxCommits == 21
NumProfiles == 2
MaxPages == 2
\* stands for config.message.maxChangelogLength (2500 by default), scaled
MaxChangelogLength == 2
MaxBodyLength == 3

(***************************************************************************)
(* Program constants                                                       *)
(***************************************************************************)
MAX_RETRIES == 3
FetchLimit == 5

Repos == 1..NumRepos
ReleaseIds == 1..MaxReleaseId
Pairs == Repos \X ReleaseIds
Handlers == 1..NumHandlers
Pollers == (NumHandlers + 1)..(NumHandlers + NumPollers)
Callers == Handlers \cup Pollers

WebhookStatus == {"pending", "active", "failed", "skipped", "unsupported"}

NoChat == "null"
DefaultChat == "defaultChat"
ProfileChat == "profileChat"

TagOf(id) == id

\* ids of the releases a repository publishes, in publication order: one more
\* than a release listing returns
FeedIds == 1..(FetchLimit + 1)

NoProbe == [fn |-> "none"]

(***************************************************************************)
(* Strings are sequences of one-character strings.                         *)
(***************************************************************************)
HexDigits == <<"0", "1", "2", "3", "4", "5", "6", "7",
               "8", "9", "a", "b", "c", "d", "e", "f">>
SigPrefix == <<"s", "h", "a", "2", "5", "6", "=">>
WebhookSecret == <<3, 7, 11>>

(***************************************************************************)
(* Raw request bodies are byte strings <<action, repository, release>>:    *)
(* action 1 is "published", repository/release 0 is an absent field.       *)
(* NoBody is a request for which express.json captured no raw body.        *)
(***************************************************************************)
NoBody == << >>
Bodies == {<<a, r, i>> : a \in 0..1, r \in 0..NumRepos, i \in 0..MaxReleaseId}

ParseAction(raw) == IF raw[1] = 1 THEN "published" ELSE "created"
ParseRepository(raw) == raw[2]
ParseRelease(raw) == raw[3]

RECURSIVE SumBytes(_, _)
SumBytes(raw, n) == IF n = 0 THEN 0 ELSE raw[n] + SumBytes(raw, n - 1)

\* Keyed digest standing for HMAC-SHA256(secret, rawBody) in hex: one hex
\* digit per body byte, injective in the body for a fixed secret.
HmacHex(secret, raw) ==
    [k \in 1..Len(raw) |->
        HexDigits[((5 * raw[k] + secret[k] + SumBytes(raw, k - 1)) % 16) + 1]]

ExpectedSignature(raw) == SigPrefix \o HmacHex(WebhookSecret, raw)

\* crypto.timingSafeEqual on two buffers of equal length
TimingSafeEqual(a, b) == \A k \in 1..Len(a) : a[k] = b[k]

(***************************************************************************)
(* verifyGitHubSignature: the status it answers, or "next" when it passes  *)
(* the request on to the release handler.                                  *)
(***************************************************************************)
verifyGitHubSignature(req) ==
    IF req.sigType # "string" \/ req.sig = << >> THEN "401"
    ELSE IF req.rawBody = NoBody THEN "500"
    ELSE IF Len(req.sig) # Len(ExpectedSignature(req.rawBody)) THEN "401"
    ELSE IF ~TimingSafeEqual(req.sig, ExpectedSignature(req.rawBody)) THEN "401"
    ELSE "next"

(***************************************************************************)
(* Requests the webhook endpoint can receive.                              *)
(***************************************************************************)
MutateByte(raw) == [raw EXCEPT ![1] = 1 - raw[1]]
SigStrings(raw) ==
    IF raw = NoBody
    THEN {<< >>, ExpectedSignature(<<1, 1, 1>>)}
    ELSE {<< >>,
          ExpectedSignature(raw),
          ExpectedSignature(MutateByte(raw)),
          SubSeq(ExpectedSignature(raw), 1, Len(ExpectedSignature(raw)) - 1),
          ExpectedSignature(raw) \o <<"0">>,
          HmacHex(WebhookSecret, raw)}
Events == {"release", "push"}

MkReq(st, s, raw, ev) == [sigType |-> st, sig |-> s, rawBody |-> raw, event |-> ev]

RequestsFor(raw) ==
    {MkReq("string", s, raw, ev) : s \in SigStrings(raw), ev \in Events}
        \cup {MkReq(st, << >>, raw, "release") : st \in {"undefined", "array"}}

NoReq == MkReq("undefined", << >>, NoBody, "none")

AllRequests == UNION {RequestsFor(raw) : raw \in Bodies \cup {NoBody}}

\* correctly signed "published" release events that name a repository and a release
SignedReleaseRequests ==
    {MkReq("string", ExpectedSignature(<<1, r, i>>), <<1, r, i>>, "release") :
        r \in Repos, i \in ReleaseIds}

(***************************************************************************)
(* State                                                                   *)
(***************************************************************************)
VARIABLES
    ledger,        \* processed_releases table, rows in rowid order
    clock,         \* CURRENT_TIMESTAMP, in seconds
    repositories,  \* repositories table, one row per full name
    apiToken,      \* config.github.apiToken is set
    pollingTask,   \* the poll scheduler has been started
    startup,       \* position of the app.listen callback
    syncQueue,     \* repositories an admin-triggered syncAllWebhooks still has to sync
    notif,         \* sendReleaseNotification run of each caller
    hreq,          \* request a webhook handler run is working on
    lastReq,       \* the last answered webhook request with its answer
    poll,          \* pollRepositories run of each poller
    cycles,        \* poll cycles started so far
    delivered,     \* completed deliveries per (repository, release id)
    published,     \* releases each repository has published at the provider
    probe          \* last call of a pure helper: its arguments and its result

vars == <<ledger, clock, repositories, apiToken, pollingTask, startup, syncQueue,
          notif, hreq, lastReq, poll, cycles, delivered, published, probe>>

(***************************************************************************)
(* Dedup ledger (storage/database.ts)                                      *)
(***************************************************************************)
isReleaseProcessed(l, releaseId, repoFullName) ==
    \E k \in 1..Len(l) :
        l[k].release_id = releaseId /\ l[k].repo_full_name = repoFullName

RECURSIVE RemovePair(_, _, _)
RemovePair(l, releaseId, repoFullName) ==
    IF l = << >> THEN << >>
    ELSE IF Head(l).release_id = releaseId /\ Head(l).repo_full_name = repoFullName
         THEN RemovePair(Tail(l), releaseId, repoFullName)
         ELSE <<Head(l)>> \o RemovePair(Tail(l), releaseId, repoFullName)

\* INSERT OR REPLACE INTO processed_releases
markReleaseProcessedReplace(l, releaseId, repoFullName, tagName, source, now) ==
    Append(RemovePair(l, releaseId, repoFullName),
           [release_id |-> releaseId, repo_full_name |-> repoFullName,
            tag_name |-> tagName, source |-> source, processed_at |-> now])

\* INSERT OR IGNORE INTO processed_releases
markReleaseProcessed(l, releaseId, repoFullName, tagName, source, now) ==
    IF isReleaseProcessed(l, releaseId, repoFullName)
    THEN l
    ELSE Append(l, [release_id |-> releaseId, repo_full_name |-> repoFullName,
                    tag_name |-> tagName, source |-> source, processed_at |-> now])

RECURSIVE KeepRows(_, _, _)
KeepRows(l, keep, k) ==
    IF k > Len(l) THEN << >>
    ELSE IF k \in keep THEN <<l[k]>> \o KeepRows(l, keep, k + 1)
    ELSE KeepRows(l, keep, k + 1)

Min(a, b) == IF a < b THEN a ELSE b

\* row sets "ORDER BY processed_at ASC LIMIT n" can select
OldestRows(l, n) ==
    {keep \in SUBSET (1..Len(l)) :
        /\ Cardinality(keep) = Min(n, Len(l))
        /\ \A i \in (1..Len(l)) \ keep : \A j \in keep :
              l[i].processed_at >= l[j].processed_at}

\* row sets "ORDER BY processed_at DESC LIMIT n" can select (ties in any order)
NewestRows(l, n) ==
    {keep \in SUBSET (1..Len(l)) :
        /\ Cardinality(keep) = Min(n, Len(l))
        /\ \A i \in (1..Len(l)) \ keep : \A j \in keep :
              l[i].processed_at <= l[j].processed_at}

(***************************************************************************)
(* Repository directory (storage/database.ts)                              *)
(***************************************************************************)
NoProfile == "none"
NoDescription == "null"
\* a row of the repositories table, keyed by full_name; id is the primary key
AbsentRow == [present |-> FALSE, id |-> 0, profile_owner |-> NoProfile,
              description |-> NoDescription,
              webhook_status |-> "pending", webhook_id |-> 0,
              chat_id |-> NoChat, archived |-> FALSE, fork |-> FALSE,
              disabled |-> FALSE, private |-> FALSE]

\* INSERT ... ON CONFLICT(full_name) DO UPDATE SET ...: a conflict on
\* full_name refreshes the row; a conflict on the primary key alone is not
\* covered by the clause, the statement fails and the table is left as it was
upsertRepository(dir, in) ==
    IF dir[in.repo].present
    THEN [dir EXCEPT ![in.repo].description = in.description,
                     ![in.repo].archived = in.archived,
                     ![in.repo].disabled = in.disabled,
                     ![in.repo].chat_id = in.chatId]
    ELSE IF \E q \in DOMAIN dir : dir[q].present /\ dir[q].id = in.id
    THEN dir
    ELSE [dir EXCEPT ![in.repo] =
             [present |-> TRUE, id |-> in.id, profile_owner |-> in.profileOwner,
              description |-> in.description,
              webhook_status |-> "pending", webhook_id |-> 0,
              chat_id |-> in.chatId, archived |-> in.archived, fork |-> in.fork,
              disabled |-> in.disabled, private |-> in.private]]

\* the hook id is not written
updateWebhookStatusKeepsId(dir, r, webhookId, status) ==
    IF dir[r].present
    THEN [dir EXCEPT ![r].webhook_status = status]
    ELSE dir

updateWebhookStatus(dir, r, webhookId, status) ==
    IF dir[r].present
    THEN [dir EXCEPT ![r].webhook_id = webhookId, ![r].webhook_status = status]
    ELSE dir

RECURSIVE SetToSeq(_)
SetToSeq(S) ==
    IF S = {} THEN << >>
    ELSE LET m == CHOOSE x \in S : \A y \in S : x <= y
         IN <<m>> \o SetToSeq(S \ {m})

\* SELECT * FROM repositories WHERE webhook_status <> 'active'
getRepositoriesNotActive(dir, status) ==
    SetToSeq({r \in Repos : dir[r].present /\ dir[r].webhook_status # "active"})

\* SELECT * FROM repositories WHERE webhook_status = ?
getRepositoriesByWebhookStatus(dir, status) ==
    SetToSeq({r \in Repos : dir[r].present /\ dir[r].webhook_status = status})

getAllRepositories(dir) == SetToSeq({r \in Repos : dir[r].present})

(***************************************************************************)
(* Delivery client (utils/telegram.ts)                                     *)
(***************************************************************************)
Responses == {"ok", "429", "error"}

AnswerSequences == [1..MaxAnswers -> Responses]

Attempt(ok, attempts, thrown) == [ok |-> ok, attempts |-> attempts, thrown |-> thrown]

\* a rate-limit answer does not end the loop at the last attempt
RECURSIVE sendSingleMessageTraceRetries429(_, _)
sendSingleMessageTraceRetries429(resps, attempt) ==
    IF attempt > Len(resps) THEN Attempt(FALSE, attempt - 1, attempt - 1)
    ELSE IF resps[attempt] = "ok" THEN Attempt(TRUE, attempt, 0)
    ELSE IF resps[attempt] = "429" THEN sendSingleMessageTraceRetries429(resps, attempt + 1)
    ELSE IF attempt < MAX_RETRIES THEN sendSingleMessageTraceRetries429(resps, attempt + 1)
    ELSE Attempt(FALSE, attempt, attempt)

\* the for loop of sendSingleMessage from the given attempt on, against the
\* provider answers resps[1], resps[2], ...: whether it returned, the HTTP
\* attempts it made and the attempt whose error it threw (0 for none)
RECURSIVE sendSingleMessageTrace(_, _)
sendSingleMessageTrace(resps, attempt) ==
    IF attempt > MAX_RETRIES THEN Attempt(FALSE, attempt - 1, attempt - 1)
    ELSE IF resps[attempt] = "ok" THEN Attempt(TRUE, attempt, 0)
    ELSE IF resps[attempt] = "429" THEN sendSingleMessageTrace(resps, attempt + 1)
    ELSE IF attempt < MAX_RETRIES THEN sendSingleMessageTrace(resps, attempt + 1)
    ELSE Attempt(FALSE, attempt, attempt)

\* TRUE when some attempt succeeds, FALSE when sendSingleMessage throws
sendSingleMessage(resps, attempt) == sendSingleMessageTrace(resps, attempt).ok

CallSendSingleMessage ==
    /\ probe = NoProbe
    /\ \E resps \in AnswerSequences :
          probe' = [fn |-> "sendSingleMessage", resps |-> resps,
                    result |-> sendSingleMessageTrace(resps, 1)]
    /\ UNCHANGED <<ledger, clock, repositories, apiToken, pollingTask, startup,
                   syncQueue, notif, hreq, lastReq, poll, cycles, delivered, published>>

NewLine == "nl"
TextChars == {"x", NewLine}
Texts == UNION {[1..n -> TextChars] : n \in 0..MaxTextLength}

Max(S) == CHOOSE x \in S : \A y \in S : x >= y

\* String.prototype.lastIndexOf('\n', fromIndex), positions counted from 0
lastIndexOf(text, fromIndex) ==
    LET found == {i \in 0..Min(fromIndex, Len(text) - 1) : text[i + 1] = NewLine}
    IN IF found = {} THEN -1 ELSE Max(found)

\* the newline at which a part ends is dropped
RECURSIVE SplitTextDropsNewline(_)
SplitTextDropsNewline(remaining) ==
    IF Len(remaining) <= MaxMessageLength THEN <<remaining>>
    ELSE LET found == lastIndexOf(remaining, MaxMessageLength)
             splitIndex == IF found = -1 \/ 2 * found < MaxMessageLength
                           THEN MaxMessageLength ELSE found
             rest == IF found = splitIndex THEN splitIndex + 2 ELSE splitIndex + 1
         IN <<SubSeq(remaining, 1, splitIndex)>>
               \o SplitTextDropsNewline(SubSeq(remaining, rest, Len(remaining)))

\* no newline is looked for: every part is cut at the ceiling
RECURSIVE SplitTextHardOnly(_)
SplitTextHardOnly(remaining) ==
    IF Len(remaining) <= MaxMessageLength THEN <<remaining>>
    ELSE <<SubSeq(remaining, 1, MaxMessageLength)>>
            \o SplitTextHardOnly(SubSeq(remaining, MaxMessageLength + 1, Len(remaining)))

\* the while loop of sendTelegramMessage
RECURSIVE SplitText(_)
SplitText(remaining) ==
    IF Len(remaining) <= MaxMessageLength THEN <<remaining>>
    ELSE LET found == lastIndexOf(remaining, MaxMessageLength)
             splitIndex == IF found = -1 \/ 2 * found < MaxMessageLength
                           THEN MaxMessageLength ELSE found
         IN <<SubSeq(remaining, 1, splitIndex)>>
               \o SplitText(SubSeq(remaining, splitIndex + 1, Len(remaining)))

\* the texts sendTelegramMessage hands to sendSingleMessage, in order
sendTelegramMessage(text) ==
    IF Len(text) > MaxMessageLength THEN SplitText(text) ELSE <<text>>

CallSendTelegramMessage ==
    /\ probe = NoProbe
    /\ \E text \in Texts :
          probe' = [fn |-> "sendTelegramMessage", text |-> text,
                    result |-> sendTelegramMessage(text)]
    /\ UNCHANGED <<ledger, clock, repositories, apiToken, pollingTask, startup,
                   syncQueue, notif, hreq, lastReq, poll, cycles, delivered, published>>

(***************************************************************************)
(* Notification orchestrator (services/notification.ts)                    *)
(***************************************************************************)
Idle == [pc |-> "idle", repo |-> 0, id |-> 0, source |-> "none", chat |-> NoChat,
         nparts |-> 0, sent |-> 0, enrichment |-> "none", sentTo |-> {}]

\* the stored chat override is not consulted
StartNotificationDefaultChat(dir, repo, id, overrideChatId, source, blank, n) ==
    LET chatId == IF overrideChatId # NoChat THEN overrideChatId ELSE DefaultChat
    IN [pc |-> IF blank THEN "fetchDetails" ELSE "send",
        repo |-> repo, id |-> id, source |-> source, chat |-> chatId,
        nparts |-> IF blank THEN 0 ELSE n, sent |-> 0,
        enrichment |-> "none", sentTo |-> {}]

\* chat id resolution and the first step of sendReleaseNotification
StartNotification(dir, repo, id, overrideChatId, source, blank, n) ==
    LET chatId == IF overrideChatId # NoChat THEN overrideChatId
                  ELSE IF dir[repo].present /\ dir[repo].chat_id # NoChat
                       THEN dir[repo].chat_id
                       ELSE DefaultChat
    IN [pc |-> IF blank THEN "fetchDetails" ELSE "send",
        repo |-> repo, id |-> id, source |-> source, chat |-> chatId,
        nparts |-> IF blank THEN 0 ELSE n, sent |-> 0,
        enrichment |-> "none", sentTo |-> {}]

\* const targetChatId = chatId ?? config.telegram.chatId
targetChatId(chatId) == IF chatId # NoChat THEN chatId ELSE DefaultChat

ToSend(rec, n) == [rec EXCEPT !.pc = "send", !.nparts = n, !.sent = 0]

\* a failed fetchReleaseDetails aborts the notification
AfterFetchDetailsThrows(rec, out, n) ==
    IF out = "empty" THEN [rec EXCEPT !.pc = "fetchPrevious"]
    ELSE IF out = "error" THEN Idle
    ELSE [ToSend(rec, n) EXCEPT !.enrichment = out]

\* the run after fetchReleaseDetails returned a body, returned none or threw
\* (the catch block goes on to format and send)
AfterFetchDetails(rec, out, n) ==
    IF out = "empty" THEN [rec EXCEPT !.pc = "fetchPrevious"]
    ELSE [ToSend(rec, n) EXCEPT !.enrichment = out]

\* await fetchReleaseDetails(...)
FetchDetailsDone(c) ==
    /\ notif[c].pc = "fetchDetails"
    /\ \E out \in {"body", "empty", "error"} : \E n \in 1..MaxParts :
          notif' = [notif EXCEPT ![c] = AfterFetchDetails(notif[c], out, n)]
    /\ UNCHANGED <<ledger, clock, repositories, apiToken, pollingTask, startup,
                   syncQueue, hreq, lastReq, poll, cycles, delivered,
                   published, probe>>

\* await fetchPreviousRelease(...): a failed call returns null
FetchPreviousDone(c) ==
    /\ notif[c].pc = "fetchPrevious"
    /\ \E out \in {"found", "null"} : \E n \in 1..MaxParts :
          notif' = [notif EXCEPT ![c] =
                       IF out = "found" THEN [notif[c] EXCEPT !.pc = "compare"]
                       ELSE [ToSend(notif[c], n) EXCEPT !.enrichment = "noPrevious"]]
    /\ UNCHANGED <<ledger, clock, repositories, apiToken, pollingTask, startup,
                   syncQueue, hreq, lastReq, poll, cycles, delivered,
                   published, probe>>

\* await generateChangelogFromCommits(...): a failed call returns null
CompareDone(c) ==
    /\ notif[c].pc = "compare"
    /\ \E out \in {"generated", "noChangelog"} : \E n \in 1..MaxParts :
          notif' = [notif EXCEPT ![c] = [ToSend(notif[c], n) EXCEPT !.enrichment = out]]
    /\ UNCHANGED <<ledger, clock, repositories, apiToken, pollingTask, startup,
                   syncQueue, hreq, lastReq, poll, cycles, delivered,
                   published, probe>>

\* what the caller of sendReleaseNotification does when it returns (ok) or throws
\* handled: the request passed the middleware; notified: it was answered
\* after sendReleaseNotification had been called
Answer(req, status, message, handled, notified) ==
    [req |-> req, status |-> status, message |-> message,
     handled |-> handled, notified |-> notified]

CallerContinues(c, ok) ==
    /\ IF c \in Handlers
       THEN /\ lastReq' = IF ok
                          THEN Answer(hreq[c], "200", "sent", TRUE, TRUE)
                          ELSE Answer(hreq[c], "500", "error", TRUE, TRUE)
            /\ UNCHANGED poll
       ELSE /\ poll' = [poll EXCEPT ![c].pc = "sleep",
                           ![c].newReleases = IF ok THEN @ + 1 ELSE @,
                           ![c].errors = IF ok THEN @ ELSE @ + 1,
                           ![c].failed = IF ok THEN @
                                         ELSE [pair |-> <<notif[c].repo, notif[c].id>>,
                                               cycle |-> poll[c].cycle]]
            /\ UNCHANGED lastReq
    /\ hreq' = IF c \in Handlers THEN [hreq EXCEPT ![c] = NoReq] ELSE hreq

\* ledger write placed in the catch block too
LedgerAfterFailureMarked(l, rec, now) ==
    markReleaseProcessed(l, rec.id, rec.repo, TagOf(rec.id), rec.source, now)

\* the catch block of sendReleaseNotification rethrows and writes nothing
LedgerAfterFailure(l, rec, now) == l

\* await sendTelegramMessage(...), one part per step; after the last part
\* markReleaseProcessed and the return to the caller
SendPart(c, answers) ==
    /\ notif[c].pc = "send"
    /\ \E resps \in answers :
          LET rec == notif[c]
              pair == <<rec.repo, rec.id>>
          IN IF sendSingleMessage(resps, 1)
             THEN IF rec.sent + 1 < rec.nparts
                  THEN /\ notif' = [notif EXCEPT ![c].sent = @ + 1,
                                                  ![c].sentTo = @ \cup {targetChatId(rec.chat)}]
                       /\ UNCHANGED <<ledger, delivered, hreq, lastReq, poll>>
                  ELSE /\ delivered[pair] < MaxDeliveries
                       /\ delivered' = [delivered EXCEPT ![pair] = @ + 1]
                       /\ ledger' = markReleaseProcessed(ledger, rec.id, rec.repo,
                                                         TagOf(rec.id), rec.source, clock)
                       /\ notif' = [notif EXCEPT ![c] = Idle]
                       /\ CallerContinues(c, TRUE)
             ELSE /\ ledger' = LedgerAfterFailure(ledger, rec, clock)
                  /\ notif' = [notif EXCEPT ![c] = Idle]
                  /\ CallerContinues(c, FALSE)
                  /\ UNCHANGED delivered
    /\ UNCHANGED <<clock, repositories, apiToken, pollingTask, startup, syncQueue, cycles,
                   published, probe>>

(***************************************************************************)
(* Webhook endpoint: verifyGitHubSignature, then handleReleaseEvent        *)
(* (handlers/releaseHandler.ts), run synchronously up to the first await.  *)
(***************************************************************************)
Decision(status, message) == [status |-> status, message |-> message]

PayloadRepository(req) == ParseRepository(req.rawBody)
PayloadRelease(req) == ParseRelease(req.rawBody)

\* duplicate check placed after the call of sendReleaseNotification is decided
handleReleaseEventNoDuplicateCheck(req, l) ==
    IF req.event # "release" THEN Decision("202", "not a release")
    ELSE IF ParseAction(req.rawBody) # "published" THEN Decision("202", "not published")
    ELSE IF PayloadRepository(req) = 0 \/ PayloadRelease(req) = 0
         THEN Decision("400", "invalid payload")
    ELSE Decision("notify", "")

\* payload validation placed before the action filter
handleReleaseEventValidateFirst(req, l) ==
    IF req.event # "release" THEN Decision("202", "not a release")
    ELSE IF PayloadRepository(req) = 0 \/ PayloadRelease(req) = 0
         THEN Decision("400", "invalid payload")
    ELSE IF ParseAction(req.rawBody) # "published" THEN Decision("202", "not published")
    ELSE IF isReleaseProcessed(l, PayloadRelease(req), PayloadRepository(req))
         THEN Decision("200", "duplicate")
    ELSE Decision("notify", "")

\* the synchronous decisions of handleReleaseEvent
handleReleaseEvent(req, l) ==
    IF req.event # "release" THEN Decision("202", "not a release")
    ELSE IF ParseAction(req.rawBody) # "published" THEN Decision("202", "not published")
    ELSE IF PayloadRepository(req) = 0 \/ PayloadRelease(req) = 0
         THEN Decision("400", "invalid payload")
    ELSE IF isReleaseProcessed(l, PayloadRelease(req), PayloadRepository(req))
         THEN Decision("200", "duplicate")
    ELSE Decision("notify", "")

ReceiveWebhook(h, req, blanks) ==
    /\ notif[h].pc = "idle"
    /\ LET v == verifyGitHubSignature(req)
           d == handleReleaseEvent(req, ledger)
       IN IF v # "next"
          THEN /\ lastReq' = Answer(req, v, "rejected", FALSE, FALSE)
               /\ UNCHANGED <<notif, hreq>>
          ELSE IF d.status # "notify"
          THEN /\ lastReq' = Answer(req, d.status, d.message, TRUE, FALSE)
               /\ UNCHANGED <<notif, hreq>>
          ELSE /\ \E blank \in blanks : \E n \in 1..MaxParts :
                     notif' = [notif EXCEPT ![h] =
                                  StartNotification(repositories, PayloadRepository(req),
                                                    PayloadRelease(req), NoChat,
                                                    "webhook", blank, n)]
               /\ hreq' = [hreq EXCEPT ![h] = req]
               /\ UNCHANGED lastReq
    /\ UNCHANGED <<ledger, clock, repositories, apiToken, pollingTask, startup,
                   syncQueue, poll, cycles, delivered,
                   published, probe>>

(***************************************************************************)
(* Poll scheduler (services/polling.ts)                                    *)
(***************************************************************************)
NoPair == <<0, 0>>

\* releases is the array checkRepositoryForNewReleases iterates over and idx
\* the position of its for loop; the other fields record what the cycle has
\* done: the repositories selected and checked, the (repository, release)
\* pairs passed to sendReleaseNotification and those passed over as
\* processed, the cycle number and the last failed notification
PollIdle == [pc |-> "idle", queue |-> << >>, releases |-> << >>, idx |-> 0,
             newReleases |-> 0, errors |-> 0, totalNewReleases |-> 0,
             totalErrors |-> 0, selected |-> {}, checked |-> {},
             notified |-> {}, skipped |-> {}, cycle |-> 0,
             failed |-> [pair |-> NoPair, cycle |-> 0]]

RECURSIVE DescSeq(_)
DescSeq(S) ==
    IF S = {} THEN << >>
    ELSE LET m == CHOOSE x \in S : \A y \in S : x >= y
         IN <<m>> \o DescSeq(S \ {m})

\* answers of GET /repos/:owner/:repo/releases?per_page=5, newest first
ReleaseLists ==
    UNION {{[k \in 1..Cardinality(S) |-> [id |-> DescSeq(S)[k], draft |-> d[k]]] :
               d \in [1..Cardinality(S) -> BOOLEAN]} :
           S \in {T \in SUBSET ReleaseIds : Cardinality(T) <= FetchLimit}}

NoReleases == {<< >>}

\* the for loop of checkRepositoryForNewReleases from position k on: the
\* position of the next release that is neither a draft nor processed
\* (Len(rels) + 1 when there is none)
RECURSIVE NextNewRelease(_, _, _, _)
NextNewRelease(rels, k, l, repo) ==
    IF k > Len(rels) THEN k
    ELSE IF rels[k].draft THEN NextNewRelease(rels, k + 1, l, repo)
    ELSE IF isReleaseProcessed(l, rels[k].id, repo)
         THEN NextNewRelease(rels, k + 1, l, repo)
    ELSE k

\* the loop runs on rels from position from
PollProceed(p, rels, from, blanks) ==
    LET row == Head(poll[p].queue)
        k == NextNewRelease(rels, from, ledger, row.repo)
        passed == {<<row.repo, rels[j].id>> : j \in {i \in from..(k - 1) : ~rels[i].draft}}
    IN IF k <= Len(rels)
       THEN /\ poll' = [poll EXCEPT ![p].pc = "notify", ![p].releases = rels,
                                    ![p].idx = k,
                                    ![p].skipped = @ \cup passed,
                                    ![p].notified = @ \cup {<<row.repo, rels[k].id>>}]
            /\ \E blank \in blanks : \E n \in 1..MaxParts :
                  notif' = [notif EXCEPT ![p] =
                               StartNotification(repositories, row.repo, rels[k].id,
                                                 row.chat_id, "polling", blank, n)]
       ELSE /\ poll' = [poll EXCEPT
                           ![p].pc = IF Tail(poll[p].queue) = << >> THEN "idle" ELSE "fetch",
                           ![p].queue = Tail(@),
                           ![p].checked = IF Tail(poll[p].queue) = << >> THEN @
                                          ELSE @ \cup {Head(Tail(poll[p].queue)).repo},
                           ![p].releases = << >>,
                           ![p].idx = 0,
                           ![p].skipped = @ \cup passed,
                           ![p].totalNewReleases = @ + poll[p].newReleases,
                           ![p].totalErrors = @ + poll[p].errors,
                           ![p].newReleases = 0,
                           ![p].errors = 0]
            /\ UNCHANGED notif

\* pollRepositories up to its first await
PollStart(p) ==
    /\ pollingTask
    /\ poll[p].pc = "idle"
    /\ cycles < MaxCycles
    /\ cycles' = cycles + 1
    /\ LET rows == getRepositoriesByWebhookStatus(repositories, "unsupported")
       IN poll' = [poll EXCEPT ![p] =
                      [PollIdle EXCEPT
                          !.pc = IF rows = << >> THEN "idle" ELSE "fetch",
                          !.queue = [k \in 1..Len(rows) |->
                                        [repo |-> rows[k],
                                         chat_id |-> repositories[rows[k]].chat_id]],
                          !.selected = {rows[k] : k \in 1..Len(rows)},
                          !.checked = IF rows = << >> THEN {} ELSE {rows[1]},
                          !.cycle = cycles + 1,
                          !.failed = poll[p].failed]]
    /\ UNCHANGED <<ledger, clock, repositories, apiToken, pollingTask, startup,
                   syncQueue, notif, hreq, lastReq, delivered,
                   published, probe>>

\* await fetchLatestReleases(owner, name); a failed call returns []
PollFetch(p, lists, blanks) ==
    /\ poll[p].pc = "fetch"
    /\ \E rels \in lists :
          PollProceed(p, rels, 1, blanks)
    /\ UNCHANGED <<ledger, clock, repositories, apiToken, pollingTask, startup,
                   syncQueue, hreq, lastReq, cycles, delivered,
                   published, probe>>

\* the 500 ms delay after a notification, then the next loop iteration
PollAfterSleep(p, blanks) ==
    /\ poll[p].pc = "sleep"
    /\ PollProceed(p, poll[p].releases, poll[p].idx + 1, blanks)
    /\ UNCHANGED <<ledger, clock, repositories, apiToken, pollingTask, startup,
                   syncQueue, hreq, lastReq, cycles, delivered,
                   published, probe>>

\* the answer of GET /repos/:owner/:repo/releases?per_page=5 for a repository
\* that has published the releases 1..n, none of them a draft: the newest
\* five, newest first
fetchLatestReleases(n) ==
    [k \in 1..Min(n, FetchLimit) |-> [id |-> n + 1 - k, draft |-> FALSE]]

\* checkRepositoryForNewReleases on the provider's current release list
PollFetchFeed(p) ==
    /\ poll[p].pc = "fetch"
    /\ \E rels \in {fetchLatestReleases(published[Head(poll[p].queue).repo])} :
          PollProceed(p, rels, 1, {FALSE})
    /\ UNCHANGED <<ledger, clock, repositories, apiToken, pollingTask, startup,
                   syncQueue, hreq, lastReq, cycles, delivered, published, probe>>

\* a repository that is being polled publishes its next release
Publish(r) ==
    /\ pollingTask
    /\ repositories[r].present
    /\ repositories[r].webhook_status = "unsupported"
    /\ published[r] < FetchLimit + 1
    /\ published' = [published EXCEPT ![r] = @ + 1]
    /\ UNCHANGED <<ledger, clock, repositories, apiToken, pollingTask, startup,
                   syncQueue, notif, hreq, lastReq, poll, cycles, delivered, probe>>

(***************************************************************************)
(* Repository filters (services/discovery.ts)                              *)
(***************************************************************************)
NameChars == {"a", "B", "."}
PatternChars == {"b", ".", "*", "?"}

Strings(chars, maxLen) == UNION {[1..n -> chars] : n \in 1..maxLen}
Names == Strings(NameChars, MaxNameLength)
Patterns == Strings(PatternChars, MaxPatternLength)
PatternLists == UNION {[1..n -> Patterns] : n \in 0..MaxPatterns}

\* the 'i' flag of the regular expression
Lower(c) == IF c = "A" THEN "a" ELSE IF c = "B" THEN "b" ELSE c

\* does name from position i on match pat from position j on, when "*" is any
\* run of characters, each character of anyOne is any single character and
\* every other character is itself, whatever its case
RECURSIVE MatchFrom(_, _, _, _, _)
MatchFrom(name, i, pat, j, anyOne) ==
    IF j > Len(pat) THEN i > Len(name)
    ELSE IF pat[j] = "*"
         THEN \/ MatchFrom(name, i, pat, j + 1, anyOne)
              \/ i <= Len(name) /\ MatchFrom(name, i + 1, pat, j, anyOne)
    ELSE /\ i <= Len(name)
         /\ pat[j] \in anyOne \/ Lower(pat[j]) = Lower(name[i])
         /\ MatchFrom(name, i + 1, pat, j + 1, anyOne)

\* new RegExp('^' + pattern.replace(/\*/g, '.*').replace(/\?/g, '.') + '$', 'i')
\* .test(repoName): "*" becomes ".*", "?" becomes "." and a "." of the pattern
\* stays the regular expression's "."
RegexTest(pattern, repoName) == MatchFrom(repoName, 1, pattern, 1, {"?", "."})

matchesPattern(repoName, patterns) ==
    IF Len(patterns) = 0 THEN FALSE
    ELSE \E k \in 1..Len(patterns) :
            patterns[k] = <<"*">> \/ RegexTest(patterns[k], repoName)

CallMatchesPattern ==
    /\ probe = NoProbe
    /\ \E repoName \in Names : \E patterns \in PatternLists :
          probe' = [fn |-> "matchesPattern", repoName |-> repoName,
                    patterns |-> patterns,
                    result |-> matchesPattern(repoName, patterns)]
    /\ UNCHANGED <<ledger, clock, repositories, apiToken, pollingTask, startup,
                   syncQueue, notif, hreq, lastReq, poll, cycles, delivered, published>>

\* config.filters and a profile's lists, over the names "a" and "b"
FilterNames == {<<"a">>, <<"B">>}
FilterLists == {<< >>, <<<<"a">>>>, <<<<"*">>>>}
Filters == [includeArchived : BOOLEAN, includeForks : BOOLEAN,
            blocklist : FilterLists, allowlist : FilterLists]
Profiles == [exclude : FilterLists, include : FilterLists]
GitHubRepositories == [name : FilterNames, archived : BOOLEAN, fork : BOOLEAN]

\* the profile's include list is consulted before the exclusions
shouldIncludeRepoIncludeFirst(repo, filters, profile) ==
    IF Len(profile.include) > 0 /\ matchesPattern(repo.name, profile.include) THEN TRUE
    ELSE IF repo.archived /\ ~filters.includeArchived THEN FALSE
    ELSE IF repo.fork /\ ~filters.includeForks THEN FALSE
    ELSE IF Len(filters.blocklist) > 0 /\ matchesPattern(repo.name, filters.blocklist)
         THEN FALSE
    ELSE IF Len(filters.allowlist) > 0 /\ ~matchesPattern(repo.name, filters.allowlist)
         THEN FALSE
    ELSE IF Len(profile.exclude) > 0 /\ matchesPattern(repo.name, profile.exclude)
         THEN FALSE
    ELSE Len(profile.include) = 0

shouldIncludeRepo(repo, filters, profile) ==
    IF repo.archived /\ ~filters.includeArchived THEN FALSE
    ELSE IF repo.fork /\ ~filters.includeForks THEN FALSE
    ELSE IF Len(filters.blocklist) > 0 /\ matchesPattern(repo.name, filters.blocklist)
         THEN FALSE
    ELSE IF Len(filters.allowlist) > 0 /\ ~matchesPattern(repo.name, filters.allowlist)
         THEN FALSE
    ELSE IF Len(profile.exclude) > 0 /\ matchesPattern(repo.name, profile.exclude)
         THEN FALSE
    ELSE IF Len(profile.include) > 0 THEN matchesPattern(repo.name, profile.include)
    ELSE TRUE

CallShouldIncludeRepo ==
    /\ probe = NoProbe
    /\ \E repo \in GitHubRepositories : \E filters \in Filters : \E profile \in Profiles :
          probe' = [fn |-> "shouldIncludeRepo", repo |-> repo, filters |-> filters,
                    profile |-> profile,
                    result |-> shouldIncludeRepo(repo, filters, profile)]
    /\ UNCHANGED <<ledger, clock, repositories, apiToken, pollingTask, startup,
                   syncQueue, notif, hreq, lastReq, poll, cycles, delivered, published>>

(***************************************************************************)
(* Discovery results and their upsert (index.ts, cli/discover.ts)          *)
(***************************************************************************)
FlagChoices == {<<FALSE, FALSE, FALSE, FALSE>>, <<TRUE, TRUE, TRUE, TRUE>>}
NoFlags == {<<FALSE, FALSE, FALSE, FALSE>>}

\* what discoverAllRepositories returns about one repository:
\* <<found, chat override of its profile, <<archived, fork, disabled, private>>>>
NotFound == <<FALSE, NoChat, <<FALSE, FALSE, FALSE, FALSE>>>>
Found(chats, flags) == {<<TRUE, c, f>> : c \in chats, f \in flags}

ConfiguredProfile == "profile"
\* the provider's id of a repository is stable; the model's discovery finds
\* repository r under id r
RepositoryInput(r, d) ==
    [repo |-> r, id |-> r, profileOwner |-> ConfiguredProfile,
     description |-> NoDescription, chatId |-> d[2],
     archived |-> d[3][1], fork |-> d[3][2],
     disabled |-> d[3][3], private |-> d[3][4]]

\* for (const repo of repos) upsertRepository(repo)
RECURSIVE UpsertAll(_, _, _)
UpsertAll(dir, found, r) ==
    IF r > NumRepos THEN dir
    ELSE UpsertAll(IF found[r][1] THEN upsertRepository(dir, RepositoryInput(r, found[r]))
                   ELSE dir,
                   found, r + 1)

\* for (const repo of repos) updateWebhookStatus(repo.fullName, null, 'unsupported')
RECURSIVE MarkAllUnsupported(_, _, _)
MarkAllUnsupported(dir, found, r) ==
    IF r > NumRepos THEN dir
    ELSE MarkAllUnsupported(IF found[r][1] THEN updateWebhookStatus(dir, r, 0, "unsupported")
                            ELSE dir,
                            found, r + 1)

(***************************************************************************)
(* Push-channel synchronizer (services/webhook.ts)                         *)
(***************************************************************************)
HookId(r) == 100 + r

\* what the provider answers during one syncWebhook call
SyncOutcomes == {"listDenied", "listError", "hookCurrent", "hookUpdated",
                 "hookUpdateError", "hookCreated", "createDenied", "createError"}

\* the provider calls one syncWebhook call makes under each answer
ProviderCalls(out) ==
    IF out \in {"listDenied", "listError", "hookCurrent"} THEN <<"list">>
    ELSE IF out \in {"hookUpdated", "hookUpdateError"} THEN <<"list", "update">>
    ELSE <<"list", "create">>

SyncResult(status, hookId, calls) == [status |-> status, hookId |-> hookId, calls |-> calls]

\* a 403/404 answer is treated like any other provider error
syncWebhookResultDeniedFails(r, token, out) ==
    IF ~token THEN SyncResult("unsupported", 0, << >>)
    ELSE IF out \in {"hookCurrent", "hookUpdated", "hookCreated"}
         THEN SyncResult("active", HookId(r), ProviderCalls(out))
    ELSE SyncResult("failed", 0, ProviderCalls(out))

\* what syncWebhook returns and stores, with the provider calls it made
syncWebhookResult(r, token, out) ==
    IF ~token THEN SyncResult("unsupported", 0, << >>)
    ELSE IF out = "listDenied" THEN SyncResult("unsupported", 0, ProviderCalls(out))
    ELSE IF out \in {"hookCurrent", "hookUpdated", "hookCreated"}
         THEN SyncResult("active", HookId(r), ProviderCalls(out))
    ELSE IF out = "createDenied" THEN SyncResult("unsupported", 0, ProviderCalls(out))
    ELSE SyncResult("failed", 0, ProviderCalls(out))

syncWebhook(dir, r, token, out) ==
    LET res == syncWebhookResult(r, token, out)
    IN updateWebhookStatus(dir, r, res.hookId, res.status)

\* getWebhookUrl() and the hooks a repository can have: the id of the k-th
\* listed hook is k, a created hook gets the next id
OurUrl == "ours"
Hooks == [url : {OurUrl, "other"},
          events : {{"release"}, {"release", "push"}, {"push"}},
          active : BOOLEAN]
HookListings == UNION {[1..n -> Hooks] : n \in 0..MaxHooks}
ListAnswers == {"hooks", "denied", "error"}
UpdateAnswers == {"ok", "error"}
CreateAnswers == {"ok", "denied", "error"}

\* hooks.find(hook => hook.config?.url === webhookUrl && hook.events?.includes('release')):
\* the position of the first such hook, 0 when there is none
findOurWebhook(hooks) ==
    LET ours == {k \in 1..Len(hooks) :
                    hooks[k].url = OurUrl /\ "release" \in hooks[k].events}
    IN IF ours = {} THEN 0 ELSE CHOOSE k \in ours : \A j \in ours : k <= j

\* every hook found is updated
needsUpdateAlways(hook) == TRUE

needsUpdate(hook) ==
    \/ ~hook.active
    \/ "release" \notin hook.events
    \/ hook.url # OurUrl

\* syncWebhook with an API token against the provider's answers to the
\* listing, to an update and to a creation
syncWebhookCalls(list, hooks, upd, crt) ==
    IF list = "denied" THEN SyncResult("unsupported", 0, <<"list">>)
    ELSE IF list = "error" THEN SyncResult("failed", 0, <<"list">>)
    ELSE LET k == findOurWebhook(hooks)
         IN IF k # 0 /\ needsUpdate(hooks[k])
            THEN IF upd = "ok" THEN SyncResult("active", k, <<"list", "update">>)
                 ELSE SyncResult("failed", 0, <<"list", "update">>)
            ELSE IF k # 0 THEN SyncResult("active", k, <<"list">>)
            ELSE IF crt = "ok"
                 THEN SyncResult("active", Len(hooks) + 1, <<"list", "create">>)
            ELSE IF crt = "denied"
                 THEN SyncResult("unsupported", 0, <<"list", "create">>)
            ELSE SyncResult("failed", 0, <<"list", "create">>)

CallSyncWebhook ==
    /\ probe = NoProbe
    /\ \E list \in ListAnswers : \E hooks \in HookListings :
       \E upd \in UpdateAnswers : \E crt \in CreateAnswers :
          probe' = [fn |-> "syncWebhook", list |-> list, hooks |-> hooks,
                    upd |-> upd, crt |-> crt,
                    result |-> syncWebhookCalls(list, hooks, upd, crt)]
    /\ UNCHANGED <<ledger, clock, repositories, apiToken, pollingTask, startup,
                   syncQueue, notif, hreq, lastReq, poll, cycles, delivered, published>>

\* the results object of syncAllWebhooks
NoResults == [st \in WebhookStatus |-> 0]

SyncAllResult(dir, results, outcomes) ==
    [dir |-> dir, results |-> results, outcomes |-> outcomes]

\* the batch ends at the first repository whose sync failed
RECURSIVE syncAllWebhooksStopsAtFailure(_, _, _, _)
syncAllWebhooksStopsAtFailure(dir, repos, token, outs) ==
    IF repos = << >> THEN SyncAllResult(dir, NoResults, << >>)
    ELSE LET res == syncWebhookResult(Head(repos), token, Head(outs))
             rest == IF res.status = "failed"
                     THEN SyncAllResult(syncWebhook(dir, Head(repos), token, Head(outs)),
                                        NoResults, << >>)
                     ELSE syncAllWebhooksStopsAtFailure(
                              syncWebhook(dir, Head(repos), token, Head(outs)),
                              Tail(repos), token, Tail(outs))
         IN SyncAllResult(rest.dir,
                          [rest.results EXCEPT ![res.status] = @ + 1],
                          <<res.status>> \o rest.outcomes)

\* syncAllWebhooks(repositories) against the provider answers outs[1],
\* outs[2], ...: the directory it leaves, its counts by status and the
\* status each repository's syncWebhook call returned
RECURSIVE syncAllWebhooks(_, _, _, _)
syncAllWebhooks(dir, repos, token, outs) ==
    IF repos = << >> THEN SyncAllResult(dir, NoResults, << >>)
    ELSE LET res == syncWebhookResult(Head(repos), token, Head(outs))
             rest == syncAllWebhooks(syncWebhook(dir, Head(repos), token, Head(outs)),
                                     Tail(repos), token, Tail(outs))
         IN SyncAllResult(rest.dir,
                          [rest.results EXCEPT ![res.status] = @ + 1],
                          <<res.status>> \o rest.outcomes)

\* a directory in which every repository has been discovered
DiscoveredDirectory ==
    [r \in Repos |-> [AbsentRow EXCEPT !.present = TRUE, !.id = r,
                                       !.profile_owner = ConfiguredProfile]]

CallSyncAllWebhooks ==
    /\ probe = NoProbe
    /\ \E n \in 0..NumRepos : \E outs \in [1..n -> SyncOutcomes] : \E token \in BOOLEAN :
          probe' = [fn |-> "syncAllWebhooks", repos |-> [k \in 1..n |-> k],
                    token |-> token, outs |-> outs,
                    result |-> syncAllWebhooks(DiscoveredDirectory, [k \in 1..n |-> k],
                                               token, outs)]
    /\ UNCHANGED <<ledger, clock, repositories, apiToken, pollingTask, startup,
                   syncQueue, notif, hreq, lastReq, poll, cycles, delivered, published>>

\* the app.listen callback: discovery, upsert, then sync or poll fallback
StartupDiscovered(results) ==
    /\ startup.pc = "discover"
    /\ \E found \in results :
          LET dir == UpsertAll(repositories, found, 1)
              queue == SetToSeq({r \in Repos : found[r][1]})
          IN IF apiToken /\ queue # << >>
             THEN /\ repositories' = dir
                  /\ startup' = [pc |-> "sync", queue |-> queue]
                  /\ UNCHANGED pollingTask
             ELSE /\ repositories' = IF apiToken THEN dir
                                     ELSE MarkAllUnsupported(dir, found, 1)
                  /\ startup' = [pc |-> "done", queue |-> << >>]
                  /\ pollingTask' = TRUE
    /\ UNCHANGED <<ledger, clock, apiToken, syncQueue, notif, hreq, lastReq, poll,
                   cycles, delivered,
                   published, probe>>

\* one iteration of syncAllWebhooks(repos) in the app.listen callback
StartupSync ==
    /\ startup.pc = "sync"
    /\ \E out \in SyncOutcomes :
          repositories' = syncWebhook(repositories, Head(startup.queue), apiToken, out)
    /\ IF Tail(startup.queue) = << >>
       THEN /\ startup' = [pc |-> "done", queue |-> << >>]
            /\ pollingTask' = TRUE
       ELSE /\ startup' = [startup EXCEPT !.queue = Tail(@)]
            /\ UNCHANGED pollingTask
    /\ UNCHANGED <<ledger, clock, apiToken, syncQueue, notif, hreq, lastReq, poll,
                   cycles, delivered,
                   published, probe>>

\* cli/discover.ts: discovery followed by the upsert of its result
DiscoverCli(results) ==
    /\ \E found \in results :
          /\ \E r \in Repos : found[r][1]
          /\ repositories' = UpsertAll(repositories, found, 1)
    /\ UNCHANGED <<ledger, clock, apiToken, pollingTask, startup, syncQueue, notif,
                   hreq, lastReq, poll, cycles, delivered,
                   published, probe>>

\* the returned list is upserted as the startup code does
AfterManualDiscoveryUpserts(dir, found, r) == UpsertAll(dir, found, r)

\* the directory after the background discovery of POST /admin/discover
\* resolved: its .then callback logs the length of the list
AfterManualDiscovery(dir, found, r) == dir

\* POST /admin/discover: the discovered repositories are counted for the log
TriggerDiscovery(results) ==
    /\ \E found \in results :
          /\ repositories' = AfterManualDiscovery(repositories, found, 1)
          /\ probe' = [fn |-> "triggerDiscovery",
                       count |-> Cardinality({r \in Repos : found[r][1]})]
    /\ UNCHANGED <<ledger, clock, apiToken, pollingTask, startup, syncQueue, notif,
                   hreq, lastReq, poll, cycles, delivered, published>>

\* POST /admin/sync-webhooks
TriggerWebhookSync ==
    /\ syncQueue = << >>
    /\ syncQueue' = getAllRepositories(repositories)
    /\ syncQueue' # << >>
    /\ UNCHANGED <<ledger, clock, repositories, apiToken, pollingTask, startup, notif,
                   hreq, lastReq, poll, cycles, delivered,
                   published, probe>>

\* one iteration of the syncAllWebhooks run started by the admin endpoint
AdminSync ==
    /\ syncQueue # << >>
    /\ \E out \in SyncOutcomes :
          repositories' = syncWebhook(repositories, Head(syncQueue), apiToken, out)
    /\ syncQueue' = Tail(syncQueue)
    /\ UNCHANGED <<ledger, clock, apiToken, pollingTask, startup, notif, hreq,
                   lastReq, poll, cycles, delivered,
                   published, probe>>

(***************************************************************************)
(* Time and retention                                                      *)
(***************************************************************************)
Tick ==
    /\ clock < MaxClock
    /\ clock' = clock + 1
    /\ UNCHANGED <<ledger, repositories, apiToken, pollingTask, startup, syncQueue,
                   notif, hreq, lastReq, poll, cycles, delivered,
                   published, probe>>

\* DELETE FROM processed_releases WHERE id NOT IN
\*   (SELECT id ... ORDER BY processed_at DESC LIMIT 1000)
cleanupOldReleases ==
    /\ \E keep \in NewestRows(ledger, RetentionLimit) :
          ledger' = KeepRows(ledger, keep, 1)
    /\ ledger' # ledger
    /\ UNCHANGED <<clock, repositories, apiToken, pollingTask, startup, syncQueue,
                   notif, hreq, lastReq, poll, cycles, delivered,
                   published, probe>>

(***************************************************************************)
(* Specifications                                                          *)
(***************************************************************************)
Init ==
    /\ ledger = << >>
    /\ clock = 0
    /\ repositories = [r \in Repos |-> AbsentRow]
    /\ apiToken \in BOOLEAN
    /\ pollingTask = FALSE
    /\ startup = [pc |-> "discover", queue |-> << >>]
    /\ syncQueue = << >>
    /\ notif = [c \in Callers |-> Idle]
    /\ hreq = [h \in Handlers |-> NoReq]
    /\ lastReq = Answer(NoReq, "none", "none", FALSE, FALSE)
    /\ poll = [p \in Pollers |-> PollIdle]
    /\ cycles = 0
    /\ delivered = [pr \in Repos \X (ReleaseIds \cup FeedIds) |-> 0]
    /\ published = [r \in Repos |-> 0]
    /\ probe = NoProbe

\* provider answers to the attempts of one sendSingleMessage call
AllAnswers == [1..MAX_RETRIES -> Responses]
SomeAnswers == {<<"ok", "ok", "ok">>, <<"error", "429", "ok">>,
                <<"error", "error", "error">>, <<"429", "429", "429">>}

Enrich(c) == FetchDetailsDone(c) \/ FetchPreviousDone(c) \/ CompareDone(c)

\* the delivery pipeline around one repository
DeliveryRepos == {1}
DeliveryRequests == {req \in SignedReleaseRequests : PayloadRepository(req) \in DeliveryRepos}
DeliveryResults ==
    {[r \in Repos |-> IF r \in DeliveryRepos THEN <<TRUE, NoChat, <<FALSE, FALSE, FALSE, FALSE>>>>
                      ELSE NotFound]}

Next ==
    \/ \E h \in Handlers : \E req \in DeliveryRequests : ReceiveWebhook(h, req, {FALSE})
    \/ \E c \in Callers : SendPart(c, SomeAnswers)
    \/ \E p \in Pollers : PollStart(p)
    \/ \E p \in Pollers : PollFetch(p, ReleaseLists, {FALSE})
    \/ \E p \in Pollers : PollAfterSleep(p, {FALSE})
    \/ StartupDiscovered(DeliveryResults)
    \/ StartupSync

Spec == Init /\ [][Next]_vars

\* the delivery pipeline with time passing and retention pruning; push
\* events arrive for every repository
NextRetention ==
    \/ \E h \in Handlers : \E req \in SignedReleaseRequests : ReceiveWebhook(h, req, {FALSE})
    \/ \E c \in Callers : SendPart(c, SomeAnswers)
    \/ \E p \in Pollers : PollStart(p)
    \/ \E p \in Pollers : PollFetch(p, ReleaseLists, {FALSE})
    \/ \E p \in Pollers : PollAfterSleep(p, {FALSE})
    \/ StartupDiscovered(DeliveryResults)
    \/ StartupSync
    \/ Tick
    \/ cleanupOldReleases

SpecRetention == Init /\ [][NextRetention]_vars

\* the webhook endpoint under every request, with changelog enrichment
NextWebhook ==
    \/ \E h \in Handlers : \E req \in AllRequests : ReceiveWebhook(h, req, BOOLEAN)
    \/ \E h \in Handlers : Enrich(h)
    \/ \E h \in Handlers : SendPart(h, AllAnswers)

SpecWebhook == Init /\ [][NextWebhook]_vars

\* the repository directory under discovery and sync, and the poll
\* scheduler's selection from it
DirectoryResults == [Repos -> {NotFound} \cup Found({NoChat}, FlagChoices)]

NextDirectory ==
    \/ StartupDiscovered(DirectoryResults)
    \/ StartupSync
    \/ DiscoverCli(DirectoryResults)
    \/ TriggerWebhookSync
    \/ AdminSync
    \/ \E p \in Pollers : PollStart(p)
    \/ \E p \in Pollers : PollFetch(p, NoReleases, {FALSE})

SpecDirectory == Init /\ [][NextDirectory]_vars

\* the poll scheduler against the provider's release feed, every send
\* succeeding at its first attempt
FeedAnswers == {<<"ok", "ok", "ok">>}

NextFeed ==
    \/ \E r \in DeliveryRepos : Publish(r)
    \/ \E p \in Pollers : PollStart(p)
    \/ \E p \in Pollers : PollFetchFeed(p)
    \/ \E p \in Pollers : PollAfterSleep(p, {FALSE})
    \/ \E p \in Pollers : SendPart(p, FeedAnswers)
    \/ StartupDiscovered(DeliveryResults)
    \/ StartupSync

SpecFeed == Init /\ [][NextFeed]_vars

\* the delivery pipeline with chat overrides stored for the first repository
\* and changed by later discovery runs; the other repositories have no row
ChannelResults ==
    {found \in [Repos -> {NotFound} \cup Found({NoChat, ProfileChat}, NoFlags)] :
        \A r \in Repos \ DeliveryRepos : found[r] = NotFound}

NextChannel ==
    \/ \E h \in Handlers : \E req \in SignedReleaseRequests : ReceiveWebhook(h, req, {FALSE})
    \/ \E c \in Callers : SendPart(c, SomeAnswers)
    \/ \E p \in Pollers : PollStart(p)
    \/ \E p \in Pollers : PollFetch(p, ReleaseLists, {FALSE})
    \/ \E p \in Pollers : PollAfterSleep(p, {FALSE})
    \/ StartupDiscovered(ChannelResults)
    \/ StartupSync
    \/ DiscoverCli(ChannelResults)

SpecChannel == Init /\ [][NextChannel]_vars

\* the poll scheduler's two timers: the callback of cron.schedule and the
\* one-off setTimeout callback each call pollRepositories() when they fire,
\* whatever an earlier call is doing; one slot per call that can be running
TimerCycles == (NumHandlers + 1)..(NumHandlers + NumPollers + 1)

InitTimers ==
    /\ ledger = << >>
    /\ clock = 0
    /\ repositories = [r \in Repos |-> AbsentRow]
    /\ apiToken \in BOOLEAN
    /\ pollingTask = FALSE
    /\ startup = [pc |-> "discover", queue |-> << >>]
    /\ syncQueue = << >>
    /\ notif = [c \in Handlers \cup TimerCycles |-> Idle]
    /\ hreq = [h \in Handlers |-> NoReq]
    /\ lastReq = Answer(NoReq, "none", "none", FALSE, FALSE)
    /\ poll = [p \in TimerCycles |-> PollIdle]
    /\ cycles = 0
    /\ delivered = [pr \in Repos \X (ReleaseIds \cup FeedIds) |-> 0]
    /\ published = [r \in Repos |-> 0]
    /\ probe = NoProbe

NextTimers ==
    \/ StartupDiscovered(DeliveryResults)
    \/ StartupSync
    \/ \E p \in TimerCycles : PollStart(p)
    \/ \E p \in TimerCycles : PollFetch(p, ReleaseLists, {FALSE})
    \/ \E p \in TimerCycles : PollAfterSleep(p, {FALSE})
    \/ \E p \in TimerCycles : SendPart(p, FeedAnswers)

SpecTimers == InitTimers /\ [][NextTimers]_vars

\* single calls of the helpers of discovery and delivery
DiscoveryResults == [Repos -> {NotFound} \cup Found({NoChat, ProfileChat}, NoFlags)]

NextDiscovery ==
    \/ StartupDiscovered(DiscoveryResults)
    \/ StartupSync
    \/ DiscoverCli(DiscoveryResults)
    \/ TriggerDiscovery(DiscoveryResults)

SpecDiscovery == Init /\ [][NextDiscovery]_vars

(***************************************************************************)
(* Changelog from a commit comparison (utils/github.ts)                    *)
(***************************************************************************)
ChangelogLimit == 20
ShortShaLength == 7
NoCommitsFound == <<"No commits found for this release.">>
Bullet == <<"bullet", " ">>
Digits == <<"0", "1", "2", "3", "4", "5", "6", "7", "8", "9">>

\* commit messages: one line, subject and body, empty, empty first line
CommitMessages == << <<"s">>, <<"s", "t", NewLine, "b">>, << >>,
                     <<NewLine, "b">>, <<"s", NewLine, NewLine, "b">> >>
\* hashes of the k-th commit of a response: longer and shorter than the
\* abbreviation
LongSha(k) == <<Digits[(k \div 10) + 1], Digits[(k % 10) + 1],
                "a", "b", "c", "d", "e", "f", "0">>
ShortSha(k) == <<Digits[(k \div 10) + 1], Digits[(k % 10) + 1], "a">>
\* the commits of a compare response of n commits
CompareCommits(n, v) ==
    [k \in 1..n |->
        [message |-> CommitMessages[((k + v) % Len(CommitMessages)) + 1],
         sha |-> IF (k + v) % 3 = 0 THEN ShortSha(k) ELSE LongSha(k)]]
CompareResponses ==
    {CompareCommits(n, v) : n \in 0..MaxCommits, v \in 0..(Len(CommitMessages) - 1)}

\* message.split('\n')[0]
RECURSIVE FirstLine(_)
FirstLine(message) ==
    IF message = << >> \/ Head(message) = NewLine THEN << >>
    ELSE <<Head(message)>> \o FirstLine(Tail(message))

\* lines.join('\n')
RECURSIVE Join(_)
Join(lines) ==
    IF lines = << >> THEN << >>
    ELSE IF Len(lines) = 1 THEN lines[1]
    ELSE lines[1] \o <<NewLine>> \o Join(Tail(lines))

ChangelogLine(commit) ==
    Bullet \o FirstLine(commit.message) \o <<" ", "(">>
           \o SubSeq(commit.sha, 1, Min(ShortShaLength, Len(commit.sha))) \o <<")">>

\* every commit of the response is listed
generateChangelogNoCap(response) ==
    IF Len(response) = 0 THEN NoCommitsFound
    ELSE Join([k \in 1..Len(response) |-> ChangelogLine(response[k])])

\* the text generateChangelogFromCommits returns for a compare response
generateChangelogFromCommits(response) ==
    LET commits == SubSeq(response, 1, Min(ChangelogLimit, Len(response)))
    IN IF Len(commits) = 0 THEN NoCommitsFound
       ELSE Join([k \in 1..Len(commits) |-> ChangelogLine(commits[k])])

CallGenerateChangelogFromCommits ==
    /\ probe = NoProbe
    /\ \E response \in CompareResponses :
          probe' = [fn |-> "generateChangelogFromCommits", response |-> response,
                    result |-> generateChangelogFromCommits(response)]
    /\ UNCHANGED <<ledger, clock, repositories, apiToken, pollingTask, startup,
                   syncQueue, notif, hreq, lastReq, poll, cycles, delivered, published>>

(***************************************************************************)
(* upsertRepository on directories with renamed and re-created             *)
(* repositories                                                            *)
(***************************************************************************)
ProviderIds == 1..NumRepos
Descriptions == {NoDescription, "text"}
ProfileNames == {ConfiguredProfile, "other"}

\* the rows a full name can have before the call
StoredRows ==
    {AbsentRow} \cup
    {[AbsentRow EXCEPT !.present = TRUE, !.id = i,
                       !.profile_owner = ConfiguredProfile,
                       !.webhook_status = st,
                       !.webhook_id = IF st = "active" THEN i ELSE 0]
        : i \in ProviderIds, st \in {"pending", "active"}}

\* directories: id is the primary key
StoredDirectories ==
    {dir \in [Repos -> StoredRows] :
        \A r, q \in Repos :
            (r # q /\ dir[r].present /\ dir[q].present) => dir[r].id # dir[q].id}

UpsertInputs ==
    {[repo |-> r, id |-> i, profileOwner |-> po, description |-> de,
      chatId |-> c, archived |-> f[1], fork |-> f[2], disabled |-> f[3],
      private |-> f[4]]
        : r \in Repos, i \in ProviderIds, po \in ProfileNames, de \in Descriptions,
          c \in {NoChat, ProfileChat}, f \in FlagChoices}

\* upsertRepository(repo) on a directory; the input conflicts with at most
\* one row
CallUpsertRepository ==
    /\ probe = NoProbe
    /\ \E dir \in StoredDirectories : \E in \in UpsertInputs :
          /\ dir[in.repo].present =>
                ~ \E q \in Repos \ {in.repo} : dir[q].present /\ dir[q].id = in.id
          /\ probe' = [fn |-> "upsertRepository", dir |-> dir, in |-> in,
                       result |-> upsertRepository(dir, in)]
    /\ UNCHANGED <<ledger, clock, repositories, apiToken, pollingTask, startup,
                   syncQueue, notif, hreq, lastReq, poll, cycles, delivered, published>>

(***************************************************************************)
(* Repository discovery against the provider's answers                     *)
(* (services/discovery.ts)                                                 *)
(***************************************************************************)
\* answers to GET /users/{owner} and to one page of the repository listing:
\* a failure, an empty page, a page with a rel="next" link, a page without
ProfileTypeAnswers == {"User", "Organization", "error"}
PageAnswers == {"error", "empty", "more", "last"}
\* the answers to the pages of one listing: a page that is never requested
\* (the page before it had no next link) is left empty
PageSequences ==
    {pages \in [1..MaxPages -> PageAnswers] :
        \A i \in 2..MaxPages : pages[i - 1] # "more" => pages[i] = "empty"}
\* the lookups of one run get the same answer
DiscoveryAnswers ==
    {[p \in 1..NumProfiles |-> [type |-> type, pages |-> pages[p]]] :
        type \in ProfileTypeAnswers,
        pages \in [1..NumProfiles -> PageSequences]}

ConfigFilters == [includeArchived |-> FALSE, includeForks |-> FALSE,
                  blocklist |-> << >>, allowlist |-> << >>]
ConfigProfiles ==
    [p \in 1..NumProfiles |->
        [owner |-> p, chatId |-> NoChat, exclude |-> << >>, include |-> << >>]]

\* the repositories on a page of an owner's listing: an archived one, then
\* a live one
PageRepos(owner, page) ==
    << [id |-> 10 * owner + 2 * page - 1, name |-> <<"a">>, archived |-> TRUE,
        fork |-> FALSE],
       [id |-> 10 * owner + 2 * page, name |-> <<"B">>, archived |-> FALSE,
        fork |-> FALSE] >>

\* a failed lookup defaults to 'user'
getProfileType(answer) == IF answer = "Organization" THEN "organization" ELSE "user"

\* the while loop of fetchAllRepositories from the given page on; a page
\* past the answers is an empty page
RECURSIVE fetchAllRepositories(_, _, _, _)
fetchAllRepositories(owner, pages, page, repos) ==
    IF page > Len(pages) THEN [ok |-> TRUE, repos |-> repos]
    ELSE IF pages[page] = "error" THEN [ok |-> FALSE, repos |-> << >>]
    ELSE IF pages[page] = "empty" THEN [ok |-> TRUE, repos |-> repos]
    ELSE IF pages[page] = "last"
         THEN [ok |-> TRUE, repos |-> repos \o PageRepos(owner, page)]
    ELSE fetchAllRepositories(owner, pages, page + 1, repos \o PageRepos(owner, page))

discoverRepositoriesForProfile(profile, answer) ==
    LET fetched == fetchAllRepositories(profile.owner, answer.pages, 1, << >>)
        Included(repo) == shouldIncludeRepo(repo, ConfigFilters, profile)
        filteredRepos == SelectSeq(fetched.repos, Included)
    IN [ok |-> fetched.ok,
        repositories |->
            [k \in 1..Len(filteredRepos) |->
                [id |-> filteredRepos[k].id, profileOwner |-> profile.owner,
                 chatId |-> profile.chatId, archived |-> filteredRepos[k].archived,
                 fork |-> filteredRepos[k].fork]]]

\* the batch ends at the first profile whose discovery failed
RECURSIVE discoverAllRepositoriesAborts(_, _)
discoverAllRepositoriesAborts(profiles, answers) ==
    IF profiles = << >> THEN [allRepos |-> << >>, visited |-> << >>]
    ELSE LET found == discoverRepositoriesForProfile(Head(profiles), Head(answers))
             rest == IF found.ok
                     THEN discoverAllRepositoriesAborts(Tail(profiles), Tail(answers))
                     ELSE [allRepos |-> << >>, visited |-> << >>]
         IN [allRepos |-> (IF found.ok THEN found.repositories ELSE << >>)
                             \o rest.allRepos,
             visited |-> <<[owner |-> Head(profiles).owner,
                            type |-> getProfileType(Head(answers).type)]>>
                            \o rest.visited]

\* discoverAllRepositories over the configured profiles: the list it
\* returns and the profiles it queried, with the listing endpoint used
RECURSIVE discoverAllRepositories(_, _)
discoverAllRepositories(profiles, answers) ==
    IF profiles = << >> THEN [allRepos |-> << >>, visited |-> << >>]
    ELSE LET found == discoverRepositoriesForProfile(Head(profiles), Head(answers))
             rest == discoverAllRepositories(Tail(profiles), Tail(answers))
         IN [allRepos |-> (IF found.ok THEN found.repositories ELSE << >>)
                             \o rest.allRepos,
             visited |-> <<[owner |-> Head(profiles).owner,
                            type |-> getProfileType(Head(answers).type)]>>
                            \o rest.visited]

CallDiscoverAllRepositories ==
    /\ probe = NoProbe
    /\ \E answers \in DiscoveryAnswers :
          probe' = [fn |-> "discoverAllRepositories", answers |-> answers,
                    result |-> discoverAllRepositories(ConfigProfiles, answers)]
    /\ UNCHANGED <<ledger, clock, repositories, apiToken, pollingTask, startup,
                   syncQueue, notif, hreq, lastReq, poll, cycles, delivered, published>>

(***************************************************************************)
(* The send loop of sendTelegramMessage against the provider's answers     *)
(***************************************************************************)
\* the provider's answers to the attempts for each part
PartAnswers == UNION {[1..n -> SomeAnswers] : n \in 1..(MaxParts + 1)}

SendRun(ok, posts, accepted) == [ok |-> ok, posts |-> posts, delivered |-> accepted]

\* the POST requests of one sendSingleMessage call for part i
PostsOf(i, attempts) == [a \in 1..attempts |-> [part |-> i, attempt |-> a]]

\* a part that failed is logged and the loop goes on with the next part
RECURSIVE sendPartsSkipsFailed(_, _)
sendPartsSkipsFailed(answers, i) ==
    IF i > Len(answers) THEN SendRun(TRUE, << >>, << >>)
    ELSE LET sent == sendSingleMessageTrace(answers[i], 1)
             rest == sendPartsSkipsFailed(answers, i + 1)
         IN SendRun(sent.ok /\ rest.ok, PostsOf(i, sent.attempts) \o rest.posts,
                    (IF sent.ok THEN <<i>> ELSE << >>) \o rest.delivered)

\* for (let i = 0; i < parts.length; i++) await sendSingleMessage(parts[i]),
\* from part i on: whether the loop ended without a throw, the POST requests
\* made and the parts the provider accepted, in order
RECURSIVE sendParts(_, _)
sendParts(answers, i) ==
    IF i > Len(answers) THEN SendRun(TRUE, << >>, << >>)
    ELSE LET sent == sendSingleMessageTrace(answers[i], 1)
         IN IF sent.ok
            THEN LET rest == sendParts(answers, i + 1)
                 IN SendRun(rest.ok, PostsOf(i, sent.attempts) \o rest.posts,
                            <<i>> \o rest.delivered)
            ELSE SendRun(FALSE, PostsOf(i, sent.attempts), << >>)

CallSendParts ==
    /\ probe = NoProbe
    /\ \E answers \in PartAnswers :
          probe' = [fn |-> "sendParts", answers |-> answers,
                    result |-> sendParts(answers, 1)]
    /\ UNCHANGED <<ledger, clock, repositories, apiToken, pollingTask, startup,
                   syncQueue, notif, hreq, lastReq, poll, cycles, delivered, published>>

(***************************************************************************)
(* A release whose notification is tried again by its caller               *)
(***************************************************************************)
RetriedRelease == [repo |-> 1, id |-> 1, source |-> "polling"]

\* sendReleaseNotification from sendTelegramMessage on: the parts accepted
\* and the ledger it leaves
NotifyOutcome(l, answers, from) ==
    LET run == sendParts(answers, from)
    IN [ok |-> run.ok, delivered |-> run.delivered,
        ledger |-> IF run.ok
                   THEN markReleaseProcessed(l, RetriedRelease.id, RetriedRelease.repo,
                                             TagOf(RetriedRelease.id),
                                             RetriedRelease.source, 0)
                   ELSE LedgerAfterFailure(l, RetriedRelease, 0)]

NotCalled(l) == [ok |-> TRUE, delivered |-> << >>, ledger |-> l]

\* the retry goes on from the part that failed
retryNotificationResumes(answers1, answers2) ==
    LET first == NotifyOutcome(<< >>, answers1, 1)
        second == IF isReleaseProcessed(first.ledger, RetriedRelease.id, RetriedRelease.repo)
                  THEN NotCalled(first.ledger)
                  ELSE NotifyOutcome(first.ledger, answers2, Len(first.delivered) + 1)
    IN [first |-> first, called |-> second # NotCalled(first.ledger), second |-> second,
        channel |-> first.delivered \o second.delivered]

\* the same release met twice by its caller (two poll cycles, or a delivery
\* and its redelivery): the caller asks isReleaseProcessed, then notifies
retryNotification(answers1, answers2) ==
    LET first == NotifyOutcome(<< >>, answers1, 1)
        second == IF isReleaseProcessed(first.ledger, RetriedRelease.id, RetriedRelease.repo)
                  THEN NotCalled(first.ledger)
                  ELSE NotifyOutcome(first.ledger, answers2, 1)
    IN [first |-> first, called |-> second # NotCalled(first.ledger), second |-> second,
        channel |-> first.delivered \o second.delivered]

CallRetryNotification ==
    /\ probe = NoProbe
    /\ \E n \in 1..(MaxParts + 1) :
       \E answers1 \in [1..n -> SomeAnswers] : \E answers2 \in [1..n -> SomeAnswers] :
          probe' = [fn |-> "retryNotification", answers1 |-> answers1,
                    answers2 |-> answers2,
                    result |-> retryNotification(answers1, answers2)]
    /\ UNCHANGED <<ledger, clock, repositories, apiToken, pollingTask, startup,
                   syncQueue, notif, hreq, lastReq, poll, cycles, delivered, published>>

(***************************************************************************)
(* The waits of sendSingleMessage between attempts                         *)
(***************************************************************************)
RETRY_DELAY == 1000
DefaultRetryAfter == 5
\* parameters.retry_after of a rate-limit answer; NoRetryAfter when absent
NoRetryAfter == -1
RetryAfters == {NoRetryAfter, 0, 3}
TimedResponses ==
    {[status |-> "ok", retryAfter |-> NoRetryAfter],
     [status |-> "error", retryAfter |-> NoRetryAfter]}
    \cup {[status |-> "429", retryAfter |-> ra] : ra \in RetryAfters}

\* Math.pow(2, n)
Pow2(n) == 2 ^ n

Waits(attempts, sleeps) == [attempts |-> attempts, sleeps |-> sleeps]

\* a rate-limit answer is followed by the backoff of any other failure
RECURSIVE sendSingleMessageWaitsBackoff(_, _)
sendSingleMessageWaitsBackoff(resps, attempt) ==
    IF attempt > MAX_RETRIES THEN Waits(attempt - 1, << >>)
    ELSE IF resps[attempt].status = "ok" THEN Waits(attempt, << >>)
    ELSE IF attempt < MAX_RETRIES
         THEN LET rest == sendSingleMessageWaitsBackoff(resps, attempt + 1)
              IN Waits(rest.attempts, <<RETRY_DELAY * Pow2(attempt - 1)>> \o rest.sleeps)
    ELSE Waits(attempt, << >>)

\* the for loop of sendSingleMessage from the given attempt on: the attempts
\* made and the sleep(ms) calls, in order
RECURSIVE sendSingleMessageWaits(_, _)
sendSingleMessageWaits(resps, attempt) ==
    IF attempt > MAX_RETRIES THEN Waits(attempt - 1, << >>)
    ELSE IF resps[attempt].status = "ok" THEN Waits(attempt, << >>)
    ELSE IF resps[attempt].status = "429"
         THEN LET retryAfter == IF resps[attempt].retryAfter = NoRetryAfter
                                THEN DefaultRetryAfter
                                ELSE resps[attempt].retryAfter
                  rest == sendSingleMessageWaits(resps, attempt + 1)
              IN Waits(rest.attempts, <<retryAfter * 1000>> \o rest.sleeps)
    ELSE IF attempt < MAX_RETRIES
         THEN LET rest == sendSingleMessageWaits(resps, attempt + 1)
              IN Waits(rest.attempts, <<RETRY_DELAY * Pow2(attempt - 1)>> \o rest.sleeps)
    ELSE Waits(attempt, << >>)

CallSendSingleMessageWaits ==
    /\ probe = NoProbe
    /\ \E resps \in [1..MaxAnswers -> TimedResponses] :
          probe' = [fn |-> "sendSingleMessageWaits", resps |-> resps,
                    result |-> sendSingleMessageWaits(resps, 1)]
    /\ UNCHANGED <<ledger, clock, repositories, apiToken, pollingTask, startup,
                   syncQueue, notif, hreq, lastReq, poll, cycles, delivered, published>>

(***************************************************************************)
(* formatReleaseMessage (utils/telegram.ts)                                *)
(***************************************************************************)
BodyChars == {"x", "&", "<"}
NullBody == <<"null">>
ReleaseBodies == {NullBody} \cup UNION {[1..n -> BodyChars] : n \in 0..MaxBodyLength}

Amp == <<"&", "a", "m", "p", ";">>
Lt == <<"&", "l", "t", ";">>
\* text.replace(/c/g, entity)
RECURSIVE ReplaceAll(_, _, _)
ReplaceAll(text, c, entity) ==
    IF text = << >> THEN << >>
    ELSE (IF Head(text) = c THEN entity ELSE <<Head(text)>>)
            \o ReplaceAll(Tail(text), c, entity)

escapeHtml(text) == ReplaceAll(ReplaceAll(text, "&", Amp), "<", Lt)

TruncationMarker == <<NewLine, NewLine, "... (truncated)">>
truncateChangelog(changelog, maxLength) ==
    IF Len(changelog) <= maxLength THEN changelog
    ELSE SubSeq(changelog, 1, maxLength) \o TruncationMarker

NoChangelogProvided == <<"<i>No changelog provided</i>">>
MessageHeader == <<"header", NewLine>>
MessageFooter == <<NewLine, NewLine, "link">>

\* the body is escaped first and cut afterwards
formatReleaseMessageEscapeFirst(body) ==
    MessageHeader
       \o (IF body # NullBody /\ body # << >>
           THEN truncateChangelog(escapeHtml(body), MaxChangelogLength)
           ELSE NoChangelogProvided)
       \o MessageFooter

\* the message text: a null or empty body is falsy
formatReleaseMessage(body) ==
    MessageHeader
       \o (IF body # NullBody /\ body # << >>
           THEN escapeHtml(truncateChangelog(body, MaxChangelogLength))
           ELSE NoChangelogProvided)
       \o MessageFooter

CallFormatReleaseMessage ==
    /\ probe = NoProbe
    /\ \E body \in ReleaseBodies :
          probe' = [fn |-> "formatReleaseMessage", body |-> body,
                    result |-> formatReleaseMessage(body)]
    /\ UNCHANGED <<ledger, clock, repositories, apiToken, pollingTask, startup,
                   syncQueue, notif, hreq, lastReq, poll, cycles, delivered, published>>

(***************************************************************************)
(* One poll cycle (services/polling.ts), as a function of the provider's    *)
(* answers and of the outcome of each notification                         *)
(***************************************************************************)
PolledIds == 1..(MaxReleaseId + 1)
\* the repository the check runs on: the first of the directory
PolledRepo == CHOOSE r \in Repos : \A q \in Repos : r <= q

\* a release of the listing
Release(id, draft, prerelease) == [id |-> id, draft |-> draft, prerelease |-> prerelease]

\* listings of distinct releases in any order
Listings(flags) ==
    UNION {{rels \in [1..n -> {Release(id, d, pre) : id \in PolledIds, d \in flags, pre \in flags}] :
               \A i, j \in 1..n : i # j => rels[i].id # rels[j].id} :
           n \in 0..(MaxReleaseId + 1)}

\* the answer of GET /repos/:owner/:repo/releases
FetchAnswer(status, data) == [status |-> status, data |-> data]
FetchAnswers(flags) ==
    {FetchAnswer("404", << >>), FetchAnswer("error", << >>)}
       \cup {FetchAnswer("200", rels) : rels \in Listings(flags)}

\* the array fetchLatestReleases returns: [] after a 404 and after any other error
fetchLatestReleasesResult(answer) ==
    IF answer.status = "200" THEN answer.data ELSE << >>

\* ledgers holding the releases S of the polled repository
RECURSIVE LedgerOf(_)
LedgerOf(S) ==
    IF S = {} THEN << >>
    ELSE LET m == CHOOSE x \in S : \A y \in S : x >= y
         IN markReleaseProcessed(LedgerOf(S \ {m}), m, PolledRepo, TagOf(m), "webhook", 0)

\* a push delivery of release id that completes while the notification of
\* the release at position at is awaited
NoArrival == [at |-> 0, id |-> 0]
Arrivals == {NoArrival} \cup [at : 1..(MaxReleaseId + 1), id : PolledIds]

PollingResult(newReleases, errors, calls, l) ==
    [newReleases |-> newReleases, errors |-> errors, calls |-> calls, ledger |-> l]

\* sendReleaseNotification(..., chat_id, 'polling') for the release at position k
NotifyCall(k, id) == [position |-> k, id |-> id, source |-> "polling"]

\* the ledger after the notification at position k returned or threw
LedgerAfterNotify(l, rels, k, ok, arrival) ==
    LET own == IF ok THEN markReleaseProcessed(l, rels[k].id, PolledRepo,
                                               TagOf(rels[k].id), "polling", 0)
               ELSE l
    IN IF arrival.at = k
       THEN markReleaseProcessed(own, arrival.id, PolledRepo, TagOf(arrival.id), "webhook", 0)
       ELSE own

\* the loop also passes over prereleases
RECURSIVE CheckLoopSkipsPrereleases(_, _, _, _, _)
CheckLoopSkipsPrereleases(rels, k, outcomes, arrival, acc) ==
    IF k > Len(rels) THEN acc
    ELSE IF rels[k].draft \/ rels[k].prerelease
         THEN CheckLoopSkipsPrereleases(rels, k + 1, outcomes, arrival, acc)
    ELSE IF isReleaseProcessed(acc.ledger, rels[k].id, PolledRepo)
         THEN CheckLoopSkipsPrereleases(rels, k + 1, outcomes, arrival, acc)
    ELSE CheckLoopSkipsPrereleases(rels, k + 1, outcomes, arrival,
            PollingResult(IF outcomes[k] THEN acc.newReleases + 1 ELSE acc.newReleases,
                          IF outcomes[k] THEN acc.errors ELSE acc.errors + 1,
                          Append(acc.calls, NotifyCall(k, rels[k].id)),
                          LedgerAfterNotify(acc.ledger, rels, k, outcomes[k], arrival)))

\* the loop returns at the first notification that throws
RECURSIVE CheckLoopStopsAtFailure(_, _, _, _, _)
CheckLoopStopsAtFailure(rels, k, outcomes, arrival, acc) ==
    IF k > Len(rels) THEN acc
    ELSE IF rels[k].draft THEN CheckLoopStopsAtFailure(rels, k + 1, outcomes, arrival, acc)
    ELSE IF isReleaseProcessed(acc.ledger, rels[k].id, PolledRepo)
         THEN CheckLoopStopsAtFailure(rels, k + 1, outcomes, arrival, acc)
    ELSE IF ~outcomes[k]
         THEN PollingResult(acc.newReleases, acc.errors + 1,
                            Append(acc.calls, NotifyCall(k, rels[k].id)), acc.ledger)
    ELSE CheckLoopStopsAtFailure(rels, k + 1, outcomes, arrival,
            PollingResult(acc.newReleases + 1, acc.errors,
                          Append(acc.calls, NotifyCall(k, rels[k].id)),
                          LedgerAfterNotify(acc.ledger, rels, k, TRUE, arrival)))

\* for (const release of releases), from position k on
RECURSIVE CheckLoop(_, _, _, _, _)
CheckLoop(rels, k, outcomes, arrival, acc) ==
    IF k > Len(rels) THEN acc
    ELSE IF rels[k].draft THEN CheckLoop(rels, k + 1, outcomes, arrival, acc)
    ELSE IF isReleaseProcessed(acc.ledger, rels[k].id, PolledRepo)
         THEN CheckLoop(rels, k + 1, outcomes, arrival, acc)
    ELSE CheckLoop(rels, k + 1, outcomes, arrival,
            PollingResult(IF outcomes[k] THEN acc.newReleases + 1 ELSE acc.newReleases,
                          IF outcomes[k] THEN acc.errors ELSE acc.errors + 1,
                          Append(acc.calls, NotifyCall(k, rels[k].id)),
                          LedgerAfterNotify(acc.ledger, rels, k, outcomes[k], arrival)))

checkRepositoryForNewReleases(answer, l, outcomes, arrival) ==
    LET releases == fetchLatestReleasesResult(answer)
    IN IF Len(releases) = 0 THEN PollingResult(0, 0, << >>, l)
       ELSE CheckLoop(releases, 1, outcomes, arrival, PollingResult(0, 0, << >>, l))

CallCheckRepositoryForNewReleases ==
    /\ probe = NoProbe
    /\ \E answer \in FetchAnswers(BOOLEAN) : \E S \in SUBSET PolledIds :
       \E outcomes \in [1..Len(answer.data) -> BOOLEAN] : \E arrival \in Arrivals :
          /\ arrival.at <= Len(answer.data)
          /\ probe' = [fn |-> "checkRepositoryForNewReleases", answer |-> answer,
                       processed |-> S, outcomes |-> outcomes, arrival |-> arrival,
                       result |-> checkRepositoryForNewReleases(answer, LedgerOf(S),
                                                                outcomes, arrival)]
    /\ UNCHANGED <<ledger, clock, repositories, apiToken, pollingTask, startup,
                   syncQueue, notif, hreq, lastReq, poll, cycles, delivered, published>>

\* what one selected repository meets in a cycle: the answer to its
\* listing request and the outcome of each notification; the listing is
\* newest first and holds no draft
CycleChecks ==
    {c \in [answer : FetchAnswers({FALSE}), outcomes : UNION {[1..n -> BOOLEAN] : n \in 0..(MaxReleaseId + 1)}] :
        /\ Len(c.outcomes) = Len(c.answer.data)
        /\ \A i, j \in 1..Len(c.answer.data) : i < j => c.answer.data[i].id > c.answer.data[j].id}
Cycles == UNION {[1..n -> CycleChecks] : n \in 0..NumRepos}

CycleResult(checked, results, totalNewReleases, totalErrors) ==
    [checked |-> checked, results |-> results,
     totalNewReleases |-> totalNewReleases, totalErrors |-> totalErrors]

\* the cycle ends at the first repository that reports an error
RECURSIVE PollLoopStopsAtError(_, _, _)
PollLoopStopsAtError(cycle, i, acc) ==
    IF i > Len(cycle) THEN acc
    ELSE LET result == checkRepositoryForNewReleases(cycle[i].answer, << >>,
                                                     cycle[i].outcomes, NoArrival)
             next == CycleResult(Append(acc.checked, i), Append(acc.results, result),
                                 acc.totalNewReleases + result.newReleases,
                                 acc.totalErrors + result.errors)
         IN IF result.errors > 0 THEN next ELSE PollLoopStopsAtError(cycle, i + 1, next)

\* for (const repo of repositories), from position i on
RECURSIVE PollLoop(_, _, _)
PollLoop(cycle, i, acc) ==
    IF i > Len(cycle) THEN acc
    ELSE LET result == checkRepositoryForNewReleases(cycle[i].answer, << >>,
                                                     cycle[i].outcomes, NoArrival)
         IN PollLoop(cycle, i + 1,
                     CycleResult(Append(acc.checked, i), Append(acc.results, result),
                                 acc.totalNewReleases + result.newReleases,
                                 acc.totalErrors + result.errors))

\* one cycle over the selected repositories
pollRepositories(cycle) ==
    IF Len(cycle) = 0 THEN CycleResult(<< >>, << >>, 0, 0)
    ELSE PollLoop(cycle, 1, CycleResult(<< >>, << >>, 0, 0))

CallPollRepositories ==
    /\ probe = NoProbe
    /\ \E cycle \in Cycles :
          probe' = [fn |-> "pollRepositories", cycle |-> cycle,
                    result |-> pollRepositories(cycle)]
    /\ UNCHANGED <<ledger, clock, repositories, apiToken, pollingTask, startup,
                   syncQueue, notif, hreq, lastReq, poll, cycles, delivered, published>>

\* the app.listen callback on a directory kept from earlier runs: an
\* upsertRepository call that fails throws, and the throw leaves the
\* callback's try block before startPolling()
upsertRepositoryThrows(dir, in) ==
    /\ ~dir[in.repo].present
    /\ \E q \in DOMAIN dir : dir[q].present /\ dir[q].id = in.id

\* lists discoverAllRepositories returns: full names and ids are distinct
DiscoveredLists ==
    UNION {{repos \in [1..n -> {in \in UpsertInputs :
                                   /\ in.profileOwner = ConfiguredProfile
                                   /\ in.description = NoDescription
                                   /\ in.chatId = NoChat
                                   /\ ~in.archived /\ ~in.fork
                                   /\ ~in.disabled /\ ~in.private}] :
               \A i, j \in 1..n :
                  i < j => repos[i].repo < repos[j].repo /\ repos[i].id # repos[j].id} :
           n \in 0..NumRepos}

\* for (const repo of repos) upsertRepository(repo), from position k on
RECURSIVE UpsertList(_, _, _)
UpsertList(dir, repos, k) ==
    IF k > Len(repos) THEN [dir |-> dir, thrown |-> FALSE]
    ELSE IF upsertRepositoryThrows(dir, repos[k]) THEN [dir |-> dir, thrown |-> TRUE]
    ELSE UpsertList(upsertRepository(dir, repos[k]), repos, k + 1)

RECURSIVE MarkListUnsupported(_, _, _)
MarkListUnsupported(dir, repos, k) ==
    IF k > Len(repos) THEN dir
    ELSE MarkListUnsupported(updateWebhookStatus(dir, repos[k].repo, 0, "unsupported"),
                             repos, k + 1)

StartupCallback ==
    /\ startup.pc = "discover"
    /\ \E repos \in DiscoveredLists :
          LET upserted == UpsertList(repositories, repos, 1)
              queue == [k \in 1..Len(repos) |-> repos[k].repo]
          IN /\ repositories' = IF upserted.thrown \/ apiToken THEN upserted.dir
                                ELSE MarkListUnsupported(upserted.dir, repos, 1)
             /\ startup' = IF upserted.thrown THEN [pc |-> "failed", queue |-> << >>]
                           ELSE IF apiToken /\ queue # << >>
                                THEN [pc |-> "sync", queue |-> queue]
                           ELSE [pc |-> "done", queue |-> << >>]
             /\ pollingTask' = (~upserted.thrown /\ ~(apiToken /\ queue # << >>))
    /\ UNCHANGED <<ledger, clock, apiToken, syncQueue, notif, hreq, lastReq, poll,
                   cycles, delivered, published, probe>>

InitStartup ==
    /\ ledger = << >>
    /\ clock = 0
    /\ repositories \in StoredDirectories
    /\ apiToken \in BOOLEAN
    /\ pollingTask = FALSE
    /\ startup = [pc |-> "discover", queue |-> << >>]
    /\ syncQueue = << >>
    /\ notif = [c \in Callers |-> Idle]
    /\ hreq = [h \in Handlers |-> NoReq]
    /\ lastReq = Answer(NoReq, "none", "none", FALSE, FALSE)
    /\ poll = [p \in Pollers |-> PollIdle]
    /\ cycles = 0
    /\ delivered = [pr \in Repos \X (ReleaseIds \cup FeedIds) |-> 0]
    /\ published = [r \in Repos |-> 0]
    /\ probe = NoProbe

NextStartup ==
    \/ StartupCallback
    \/ StartupSync

\* the callback's awaits resolve: every request has a timeout
SpecStartup == InitStartup /\ [][NextStartup]_vars /\ WF_vars(NextStartup)

\* the hooks of the repository after the requests of one syncWebhook call:
\* PATCH makes the hook active with the release event and our url, POST
\* adds such a hook under the next id
OurHook == [url |-> OurUrl, events |-> {"release"}, active |-> TRUE]
ProviderAfter(hooks, res) ==
    IF res.status # "active" THEN hooks
    ELSE IF res.calls = <<"list", "update">> THEN [hooks EXCEPT ![res.hookId] = OurHook]
    ELSE IF res.calls = <<"list", "create">> THEN Append(hooks, OurHook)
    ELSE hooks

\* syncWebhook(repository) twice in sequence; the provider answers the
\* second run's requests as it answered the first's
syncWebhookTwice(list, hooks, upd, crt) ==
    LET first == syncWebhookCalls(list, hooks, upd, crt)
    IN [first |-> first,
        second |-> syncWebhookCalls(list, ProviderAfter(hooks, first), upd, crt)]

CallSyncWebhookTwice ==
    /\ probe = NoProbe
    /\ \E list \in ListAnswers : \E hooks \in HookListings :
       \E upd \in UpdateAnswers : \E crt \in CreateAnswers :
          probe' = [fn |-> "syncWebhookTwice", list |-> list, hooks |-> hooks,
                    upd |-> upd, crt |-> crt,
                    result |-> syncWebhookTwice(list, hooks, upd, crt)]
    /\ UNCHANGED <<ledger, clock, repositories, apiToken, pollingTask, startup,
                   syncQueue, notif, hreq, lastReq, poll, cycles, delivered, published>>

NextHelpers ==
    \/ CallMatchesPattern
    \/ CallShouldIncludeRepo
    \/ CallSendTelegramMessage
    \/ CallSendSingleMessage
    \/ CallSyncWebhook
    \/ CallSyncAllWebhooks
    \/ CallGenerateChangelogFromCommits
    \/ CallUpsertRepository
    \/ CallDiscoverAllRepositories
    \/ CallSendParts
    \/ CallRetryNotification
    \/ CallSendSingleMessageWaits
    \/ CallFormatReleaseMessage
    \/ CallCheckRepositoryForNewReleases
    \/ CallPollRepositories
    \/ CallSyncWebhookTwice

SpecHelpers == Init /\ [][NextHelpers]_vars

(***************************************************************************)
(* Properties                                                              *)
(***************************************************************************)
Rows(l) == {l[k] : k \in 1..Len(l)}
RowsOf(l, pair) ==
    {k \in 1..Len(l) : l[k].repo_full_name = pair[1] /\ l[k].release_id = pair[2]}
InLedger(l, pair) == RowsOf(l, pair) # {}
Started(c) == notif[c].pc = "idle" /\ notif'[c].pc # "idle"
ReqPair(req) == <<PayloadRepository(req), PayloadRelease(req)>>
ValidRelease(req) ==
    /\ req.event = "release"
    /\ ParseAction(req.rawBody) = "published"
    /\ PayloadRepository(req) # 0
    /\ PayloadRelease(req) # 0

\* C1: no (repository, release id) pair has two completed deliveries, in any
\* interleaving of webhook handler runs and poll cycles.
AtMostOnceDelivery == \A pr \in Pairs : delivered[pr] <= 1

\* C2: the ledger never holds two rows of one (release id, repository) pair,
\* and no step changes the row of a pair that already has one: marking a
\* pair a second time leaves its tag, source and timestamp as they were.
LedgerPairUnique ==
    /\ [](\A pr \in Pairs : Cardinality(RowsOf(ledger, pr)) <= 1)
    /\ [][\A pr \in Pairs :
             InLedger(ledger, pr) /\ InLedger(ledger', pr)
                 => {ledger'[k] : k \in RowsOf(ledger', pr)}
                      = {ledger[k] : k \in RowsOf(ledger, pr)}]_vars

\* a pair delivered twice (both callers marked it) with a single ledger row
MarkedTwiceOneRow ==
    \E pr \in Pairs : delivered[pr] = 2 /\ Cardinality(RowsOf(ledger, pr)) = 1

\* C3: every ledger row belongs to a pair with a completed delivery, and a
\* step in which sendReleaseNotification throws to its caller (500 answer,
\* or a counted poll error) leaves the ledger as it was.
NotifyThrows ==
    \/ lastReq' # lastReq /\ lastReq'.notified /\ lastReq'.status = "500"
    \/ \E p \in Pollers : poll'[p].errors = poll[p].errors + 1
LedgerOnlyAfterDelivery ==
    /\ [](\A k \in 1..Len(ledger) :
             delivered[<<ledger[k].repo_full_name, ledger[k].release_id>>] >= 1)
    /\ [][NotifyThrows => ledger' = ledger]_vars

\* a push event answered 500 whose pair has no ledger row, next to a row
\* written for a delivered pair
FailedNotifyLeftNoRow ==
    /\ lastReq.notified /\ lastReq.status = "500"
    /\ ~InLedger(ledger, ReqPair(lastReq.req))
    /\ delivered[ReqPair(lastReq.req)] = 0

\* C4: sendReleaseNotification (and with it every enrichment and delivery
\* call) never starts for a pair that is in the ledger when the event or the
\* polled release is examined; the handler answers such a push event 200
\* with the duplicate notice and the poll loop passes over the release.
NoWorkForLedgeredRelease ==
    [][/\ \A c \in Callers :
             Started(c) => ~InLedger(ledger, <<notif'[c].repo, notif'[c].id>>)
       /\ (/\ lastReq' # lastReq
           /\ lastReq'.handled
           /\ ~lastReq'.notified
           /\ ValidRelease(lastReq'.req)
           /\ InLedger(ledger, ReqPair(lastReq'.req)))
             => /\ lastReq'.status = "200"
                /\ lastReq'.message = "duplicate"
                /\ notif' = notif
       /\ \A p \in Pollers : \A pr \in poll'[p].skipped \ poll[p].skipped :
             /\ InLedger(ledger, pr)
             /\ pr \notin poll'[p].notified \ poll[p].notified]_vars

\* a push event answered with the duplicate notice while a poll cycle has
\* passed over a processed release
DuplicateSuppressed ==
    /\ lastReq.status = "200" /\ lastReq.message = "duplicate"
    /\ \E p \in Pollers : poll[p].skipped # {}

PollDeliveryFails(p) ==
    /\ poll[p].pc = "notify"
    /\ poll'[p].pc = "sleep"
    /\ delivered' = delivered
PushFailureNotRecorded ==
    [][/\ (/\ lastReq' # lastReq
           /\ lastReq'.notified
           /\ delivered' = delivered)
             => /\ lastReq'.status = "500"
                /\ ledger' = ledger
       /\ (/\ lastReq' # lastReq
           /\ lastReq'.handled
           /\ ~lastReq'.notified
           /\ lastReq'.message = "duplicate")
             => InLedger(ledger, ReqPair(lastReq'.req))
       /\ \A h \in Handlers :
             (/\ lastReq.notified /\ lastReq.status = "500"
              /\ hreq'[h] = lastReq.req /\ hreq[h] # lastReq.req
              /\ ~InLedger(ledger, ReqPair(lastReq.req)))
                => Started(h)]_vars

\* the event that was answered 500 has been delivered again and is being sent
RedeliveryProcessed ==
    \E h \in Handlers :
        /\ lastReq.notified /\ lastReq.status = "500"
        /\ hreq[h] = lastReq.req
        /\ notif[h].pc = "send"
        /\ ~InLedger(ledger, ReqPair(lastReq.req))

\* C8: a request reaches the release handler only if its signature header
\* is the string "sha256=" followed by the HMAC of its raw body, and every
\* answered request whose signature is missing, of another length or of
\* another value was answered 401, whatever its body.
Answered == lastReq.status # "none"
SignatureMatches(req) ==
    /\ req.sigType = "string"
    /\ req.sig = SigPrefix \o HmacHex(WebhookSecret, req.rawBody)
BadSignatureAnswered401 ==
    Answered =>
        /\ lastReq.handled => SignatureMatches(lastReq.req)
        /\ ~SignatureMatches(lastReq.req)
              => lastReq.status = "401" /\ ~lastReq.handled

\* C9: a request that passed the signature check is answered 202 when its
\* event type is not "release", else 202 when its action is not
\* "published", else 400 when repository or release is missing, else 200
\* with the duplicate notice when the pair is in the ledger, and otherwise
\* sendReleaseNotification runs and the answer is 200 when it delivered and
\* 500 when it failed; sendReleaseNotification starts in that last case only.
AnswerFollowsOrder(req, ans, l, deliveredNow) ==
    IF req.event # "release" THEN ans.status = "202" /\ ~ans.notified
    ELSE IF ParseAction(req.rawBody) # "published" THEN ans.status = "202" /\ ~ans.notified
    ELSE IF PayloadRepository(req) = 0 \/ PayloadRelease(req) = 0
         THEN ans.status = "400" /\ ~ans.notified
    ELSE IF ~ans.notified
         THEN ans.status = "200" /\ ans.message = "duplicate" /\ InLedger(l, ReqPair(req))
    ELSE ans.status = IF deliveredNow THEN "200" ELSE "500"
HandlerAnswerOrder ==
    [][/\ (lastReq' # lastReq /\ lastReq'.handled)
             => AnswerFollowsOrder(lastReq'.req, lastReq', ledger, delivered' # delivered)
       /\ \A h \in Handlers :
             Started(h) => /\ SignatureMatches(hreq'[h])
                           /\ ValidRelease(hreq'[h])
                           /\ ~InLedger(ledger, ReqPair(hreq'[h]))]_vars

\* a correctly signed "created" event without repository was answered 202
\* although its payload is incomplete
IgnoredBeforeValidated ==
    /\ lastReq.handled
    /\ lastReq.status = "202"
    /\ lastReq.req.event = "release"
    /\ PayloadRepository(lastReq.req) = 0

\* C10: the poll cycle that starts selects exactly the repositories whose
\* stored status is "unsupported" at that moment, whatever their flags, and
\* none with status "active", "pending" or "failed"; the repositories it
\* checks are repositories it selected, all of them once it has finished.
CycleStarts(p) == cycles' = cycles + 1 /\ poll'[p].cycle = cycles'
PollCoversUnregistered ==
    [][\A p \in Pollers :
          CycleStarts(p)
              => \A r \in Repos :
                    (repositories[r].present
                       /\ repositories[r].webhook_status \in {"unsupported", "failed", "pending"})
                       => r \in poll'[p].selected]_vars

\* C12: every release published by a polled repository has been passed to
\* sendReleaseNotification (it is in the ledger or among the releases the
\* running cycle notified) or is still in the listing the next cycle will
\* fetch, so that a later cycle passes it on, however many releases were
\* published since the last cycle.
StillListed(r, id) ==
    \E k \in 1..Len(fetchLatestReleases(published[r])) :
        fetchLatestReleases(published[r])[k].id = id
PublishedReleaseNotified ==
    \A r \in Repos : \A id \in 1..published[r] :
        \/ InLedger(ledger, <<r, id>>)
        \/ \E p \in Pollers : <<r, id>> \in poll[p].notified
        \/ StillListed(r, id)

\* C13: whenever no API token is configured every repository of the
\* directory has status "unsupported", and a sync of a repository under a
\* 403/404 answer to listing or creating hooks stores "unsupported".
SyncStep(r) ==
    \/ /\ syncQueue # << >>
       /\ syncQueue' = Tail(syncQueue)
       /\ r = Head(syncQueue)
    \/ /\ startup.pc = "sync"
       /\ startup' # startup
       /\ r = Head(startup.queue)
DeniedOutcomes == {"listDenied", "createDenied"}
UnsupportedWithoutToken ==
    /\ [](~apiToken => \A r \in Repos :
             repositories[r].present => repositories[r].webhook_status = "unsupported")
    /\ [][\A r \in Repos : SyncStep(r) =>
             \A out \in DeniedOutcomes :
                syncWebhook(repositories, r, apiToken, out)[r].webhook_status
                   = "unsupported"]_vars

\* C14: a sync step without API token stores and returns "unsupported" with
\* a null hook id and makes no provider call; with a token, a 403/404 answer
\* to listing or creating hooks makes it store and return "unsupported",
\* never "failed".
SyncMapsDenialToUnsupported ==
    [][\A r \in Repos : SyncStep(r) =>
          /\ \E out \in SyncOutcomes :
                repositories' = syncWebhook(repositories, r, apiToken, out)
          /\ ~apiToken =>
                /\ repositories'[r].webhook_status = "unsupported"
                /\ repositories'[r].webhook_id = 0
                /\ \A out \in SyncOutcomes :
                      syncWebhookResult(r, apiToken, out)
                         = SyncResult("unsupported", 0, << >>)
          /\ apiToken =>
                \A out \in DeniedOutcomes :
                   /\ syncWebhookResult(r, apiToken, out).status = "unsupported"
                   /\ syncWebhookResult(r, apiToken, out).hookId = 0
                   /\ syncWebhook(repositories, r, apiToken, out)[r].webhook_status
                         = "unsupported"]_vars

\* without API token an admin-triggered sync has turned a repository that
\* discovery stored as "pending" into "unsupported"; another one still waits
SyncedWithoutToken ==
    /\ ~apiToken
    /\ \E r, q \in Repos :
          /\ repositories[r].present
          /\ repositories[r].webhook_status = "unsupported"
          /\ repositories[r].webhook_id = 0
          /\ syncQueue = <<q>>
          /\ q # r
          /\ repositories[q].webhook_status = "pending"

\* C16: matchesPattern is false for an empty pattern list and otherwise true
\* exactly when some pattern matches the whole name, whatever the case, read
\* as a glob in which "*" is any run of characters, "?" is exactly one
\* character and every other character matches only itself.
GlobMatches(pattern, name) == MatchFrom(name, 1, pattern, 1, {"?"})
MatchesPatternIsGlob ==
    probe.fn = "matchesPattern"
        => probe.result = (\E k \in 1..Len(probe.patterns) :
                              GlobMatches(probe.patterns[k], probe.repoName))

\* C15: the inclusion decision is the first rule that applies: an archived
\* repository without includeArchived is excluded, then a fork without
\* includeForks, then a name on the blocklist, then a name missing from a
\* non-empty allowlist, then a name on the profile's exclude list; what
\* remains is included exactly when the profile's include list is empty or
\* matches the name.
ExcludedByFlags(c) ==
    \/ c.repo.archived /\ ~c.filters.includeArchived
    \/ c.repo.fork /\ ~c.filters.includeForks
ExcludedByLists(c) ==
    \/ matchesPattern(c.repo.name, c.filters.blocklist)
    \/ c.filters.allowlist # << >> /\ ~matchesPattern(c.repo.name, c.filters.allowlist)
    \/ matchesPattern(c.repo.name, c.profile.exclude)
InclusionFirstMatch ==
    probe.fn = "shouldIncludeRepo" =>
        /\ ExcludedByFlags(probe) => ~probe.result
        /\ ExcludedByLists(probe) => ~probe.result
        /\ (~ExcludedByFlags(probe) /\ ~ExcludedByLists(probe))
              => probe.result = (\/ probe.profile.include = << >>
                                 \/ matchesPattern(probe.repo.name, probe.profile.include))

\* an archived repository that matches the allowlist and the profile's
\* include list was excluded because includeArchived is off
ArchivedExcludedDespiteLists ==
    /\ probe.fn = "shouldIncludeRepo"
    /\ probe.repo.archived
    /\ ~probe.filters.includeArchived
    /\ matchesPattern(probe.repo.name, probe.filters.allowlist)
    /\ matchesPattern(probe.repo.name, probe.profile.include)
    /\ ~probe.result

\* C19: a text longer than the message ceiling is split into finitely many
\* non-empty parts of at most the ceiling each whose concatenation, in
\* order, is the text; a text within the ceiling is sent as one unmodified
\* message.
RECURSIVE Concat(_)
Concat(parts) == IF parts = << >> THEN << >> ELSE Head(parts) \o Concat(Tail(parts))
SplitPreservesText ==
    probe.fn = "sendTelegramMessage" =>
        /\ Concat(probe.result) = probe.text
        /\ \A k \in 1..Len(probe.result) : Len(probe.result[k]) <= MaxMessageLength
        /\ Len(probe.text) > MaxMessageLength
              => /\ \A k \in 1..Len(probe.result) : Len(probe.result[k]) > 0
                 /\ Len(probe.result) <= Len(probe.text)
        /\ Len(probe.text) <= MaxMessageLength => probe.result = <<probe.text>>

\* a text longer than the ceiling was split into three parts, the second
\* starting with the newline the first was cut at
SplitAtNewline ==
    /\ probe.fn = "sendTelegramMessage"
    /\ Len(probe.text) > MaxMessageLength
    /\ Len(probe.result) = 3
    /\ Len(probe.result[1]) < MaxMessageLength
    /\ probe.result[2][1] = NewLine

\* C20: one sendSingleMessage call makes at most 3 HTTP attempts whatever
\* the provider answers, stops at the first success, and when no attempt
\* succeeded throws the error of its last attempt.
AtMostThreeAttempts ==
    probe.fn = "sendSingleMessage" =>
        LET run == probe.result
            resps == probe.resps
        IN /\ run.attempts <= 3
           /\ \A k \in 1..(run.attempts - 1) : resps[k] # "ok"
           /\ run.ok => resps[run.attempts] = "ok" /\ run.thrown = 0
           /\ ~run.ok => /\ resps[run.attempts] # "ok"
                         /\ run.thrown = run.attempts
                         /\ run.attempts = 3

\* three rate-limit answers: the call threw the third error although a
\* fourth attempt would have succeeded
GaveUpAfterThird ==
    /\ probe.fn = "sendSingleMessage"
    /\ probe.resps = [k \in 1..MaxAnswers |-> IF k <= 3 THEN "429" ELSE "ok"]
    /\ ~probe.result.ok
    /\ probe.result.attempts = 3

\* C17: a notification goes to the override its caller passed when there is
\* one, else to the chat stored for the repository when the directory has a
\* row with a non-null chat, else to the default chat; the chat does not
\* change during the run and every part is sent to it.
OverrideOf(c) == IF c \in Pollers THEN Head(poll[c].queue).chat_id ELSE NoChat
StoredChat(repo) ==
    IF repositories[repo].present THEN repositories[repo].chat_id ELSE NoChat
ChannelResolution ==
    /\ [][\A c \in Callers :
             /\ Started(c) =>
                   notif'[c].chat =
                      IF OverrideOf(c) # NoChat THEN OverrideOf(c)
                      ELSE IF StoredChat(notif'[c].repo) # NoChat
                           THEN StoredChat(notif'[c].repo)
                      ELSE DefaultChat
             /\ (notif[c].pc # "idle" /\ notif'[c].pc # "idle")
                   => notif'[c].chat = notif[c].chat
             /\ (notif[c].pc = "send" /\ notif'[c] # notif[c])
                   => targetChatId(notif[c].chat) = notif[c].chat]_vars
    /\ [](\A c \in Callers : notif[c].sentTo \subseteq {notif[c].chat})

\* a push event's first part went to the chat stored for its repository
SentToStoredChat ==
    \E h \in Handlers :
        /\ notif[h].pc = "send"
        /\ notif[h].sentTo = {ProfileChat}
        /\ repositories[notif[h].repo].chat_id = ProfileChat

\* C18: whatever the enrichment calls answer, the run goes on to format and
\* send: a run that is enriching stays in enrichment or starts sending, its
\* step answers no request and writes nothing, and a run only ends from the
\* send.
Enriching(rec) == rec.pc \in {"fetchDetails", "fetchPrevious", "compare"}
EnrichmentAbsorbed ==
    [][\A c \in Callers :
          /\ (Enriching(notif[c]) /\ notif'[c] # notif[c])
                => /\ Enriching(notif'[c]) \/ notif'[c].pc = "send"
                   /\ notif'[c].pc = "send" => notif'[c].nparts >= 1
                   /\ UNCHANGED <<ledger, lastReq, hreq, delivered>>
          /\ (notif[c].pc # "idle" /\ notif'[c].pc = "idle") => notif[c].pc = "send"]_vars

\* fetchReleaseDetails threw and the first part of the message has been sent
SentAfterEnrichmentError ==
    \E c \in Callers :
        /\ notif[c].pc = "send"
        /\ notif[c].enrichment = "error"
        /\ notif[c].sent >= 1

\* C21: after a successful listing sync issues a create request exactly when
\* no listed hook has this service's URL together with the release event;
\* when there is such a hook it issues an update exactly when that hook's
\* active flag, event set or URL differs from the desired configuration, and
\* unless that update fails it reports "active" with the hook's id.
DiffersFromDesired(hook) ==
    \/ ~hook.active
    \/ hook.events # {"release"}
    \/ hook.url # OurUrl
Issued(call) == \E k \in 1..Len(probe.result.calls) : probe.result.calls[k] = call
SyncCreatesOrUpdates ==
    (probe.fn = "syncWebhook" /\ probe.list = "hooks") =>
        LET ours == {k \in 1..Len(probe.hooks) :
                        /\ probe.hooks[k].url = OurUrl
                        /\ "release" \in probe.hooks[k].events}
        IN /\ Issued("create") <=> ours = {}
           /\ ours # {} =>
                 \E k \in ours :
                    /\ Issued("update") <=> DiffersFromDesired(probe.hooks[k])
                    /\ \/ probe.result.status = "failed" /\ probe.upd = "error"
                       \/ probe.result.status = "active" /\ probe.result.hookId = k

\* C22: a sync that fails for another reason than 403/404 gives its
\* repository the outcome "failed" and the batch goes on: every input
\* repository gets exactly one outcome, which is stored in its row, and the
\* counts by status sum to the number of input repositories.
RECURSIVE SumOver(_, _)
SumOver(f, S) ==
    IF S = {} THEN 0
    ELSE LET x == CHOOSE y \in S : TRUE IN f[x] + SumOver(f, S \ {x})
ErrorOutcomes == {"listError", "hookUpdateError", "createError"}
SyncAllCountsEveryRepository ==
    probe.fn = "syncAllWebhooks" =>
        LET run == probe.result
            n == Len(probe.repos)
        IN /\ Len(run.outcomes) = n
           /\ SumOver(run.results, WebhookStatus) = n
           /\ \A st \in WebhookStatus :
                 run.results[st] = Cardinality({k \in 1..n : run.outcomes[k] = st})
           /\ \A k \in 1..n :
                 /\ run.dir[probe.repos[k]].webhook_status = run.outcomes[k]
                 /\ (probe.token /\ probe.outs[k] \in ErrorOutcomes)
                       => run.outcomes[k] = "failed"

\* the first repository's sync failed and the second one was still synced
SyncedAfterFailure ==
    /\ probe.fn = "syncAllWebhooks"
    /\ Len(probe.repos) >= 2
    /\ probe.result.outcomes[1] = "failed"
    /\ probe.result.outcomes[2] = "active"
    /\ probe.result.results["failed"] = 1
    /\ probe.result.results["active"] = 1

\* C23: after every sync step, whatever branch it took, the row of the
\* synced repository holds exactly the status and the hook id the call
\* returned, the hook id being non-null exactly when the status is "active";
\* no other row changes.
SyncPersistsOutcome ==
    [][\A r \in Repos : SyncStep(r) =>
          \E out \in SyncOutcomes :
             LET res == syncWebhookResult(r, apiToken, out)
             IN /\ repositories' = syncWebhook(repositories, r, apiToken, out)
                /\ repositories'[r].webhook_status = res.status
                /\ repositories'[r].webhook_id = res.hookId
                /\ res.hookId # 0 <=> res.status = "active"
                /\ \A q \in Repos \ {r} : repositories'[q] = repositories[q]]_vars

\* one repository's row holds "active" with its hook id, another's "failed"
\* with a null hook id
ActiveAndFailedStored ==
    \E r, q \in Repos :
        /\ repositories[r].webhook_status = "active"
        /\ repositories[r].webhook_id = HookId(r)
        /\ repositories[q].webhook_status = "failed"
        /\ repositories[q].webhook_id = 0

\* C24: the hook id and the status of a row of the directory are only
\* changed by a sync step of the push-channel synchronizer.
StatusOwnedBySynchronizer ==
    [][\A r \in Repos :
          (/\ repositories[r].present
           /\ \/ repositories'[r].webhook_status # repositories[r].webhook_status
              \/ repositories'[r].webhook_id # repositories[r].webhook_id)
             => SyncStep(r)]_vars

\* C28: enrichment tries its steps in order: whenever the re-fetch of the
\* release does not produce a non-empty body (empty body or failed call),
\* the recent releases are listed next; the message is built right after
\* the re-fetch only with the body it returned.
RefetchThenListing ==
    [][\A c \in DOMAIN notif :
          (notif[c].pc = "fetchDetails" /\ notif'[c] # notif[c]) =>
              \/ notif'[c].pc = "fetchPrevious"
              \/ notif'[c].pc = "send" /\ notif'[c].enrichment = "body"]_vars

\* the characters of the text that precede part k
RECURSIVE OffsetOf(_, _)
OffsetOf(parts, k) == IF k <= 1 THEN 0 ELSE OffsetOf(parts, k - 1) + Len(parts[k - 1])

\* where the text remaining at the given offset is to be cut: at its last
\* newline at or before index MaxMessageLength when that index is in the
\* second half, at MaxMessageLength otherwise
ExpectedSplit(text, offset) ==
    LET newlines == {i \in 0..MaxMessageLength :
                        /\ offset + i + 1 <= Len(text)
                        /\ text[offset + i + 1] = NewLine}
        secondHalf == {i \in newlines : 2 * i >= MaxMessageLength}
    IN IF newlines # {} /\ Max(newlines) \in secondHalf
       THEN Max(newlines) ELSE MaxMessageLength

\* any MaxNewlineGap consecutive characters of the text hold a newline
NewlineEvery(text) ==
    \A i \in 1..(Len(text) - MaxNewlineGap + 1) :
        \E j \in i..(i + MaxNewlineGap - 1) : text[j] = NewLine

\* C30: every part but the last of an oversized text ends at the last newline
\* at or before index MaxMessageLength of the remaining text when that
\* newline lies in the second half, and at exactly MaxMessageLength
\* otherwise; hence every part boundary of a text with closely spaced
\* newlines falls at a newline.
SplitPointRule ==
    (probe.fn = "sendTelegramMessage" /\ Len(probe.text) > MaxMessageLength) =>
        LET parts == probe.result
        IN /\ Len(parts) >= 2
           /\ \A k \in 1..(Len(parts) - 1) :
                 Len(parts[k]) = ExpectedSplit(probe.text, OffsetOf(parts, k))
           /\ OffsetOf(parts, Len(parts)) + Len(parts[Len(parts)]) = Len(probe.text)
           /\ (NewlineEvery(probe.text) /\ 2 * MaxNewlineGap <= MaxMessageLength + 2)
                 => \A k \in 2..Len(parts) :
                       probe.text[OffsetOf(parts, k) + 1] = NewLine

\* a text with closely spaced newlines was cut before the ceiling
CutAtNewlineBeforeCeiling ==
    /\ probe.fn = "sendTelegramMessage"
    /\ Len(probe.text) > MaxMessageLength
    /\ NewlineEvery(probe.text)
    /\ Len(probe.result) >= 2
    /\ Len(probe.result[1]) < MaxMessageLength
    /\ \E i \in 1..Len(probe.text) : probe.text[i] # NewLine

\* the lines of a text, cut at its newlines
LinesOf(text) ==
    LET newlines == {i \in 1..Len(text) : text[i] = NewLine}
        nth(k) == CHOOSE j \in newlines : Cardinality({i \in newlines : i <= j}) = k
        from(k) == IF k = 1 THEN 1 ELSE nth(k - 1) + 1
        to(k) == IF k = Cardinality(newlines) + 1 THEN Len(text) ELSE nth(k) - 1
    IN [k \in 1..(Cardinality(newlines) + 1) |-> SubSeq(text, from(k), to(k))]

\* l is the first line of the message
IsFirstLine(l, message) ==
    /\ Len(l) <= Len(message)
    /\ \A i \in 1..Len(l) : l[i] = message[i] /\ l[i] # NewLine
    /\ Len(l) = Len(message) \/ message[Len(l) + 1] = NewLine

\* s holds the first seven characters of the hash
IsShortSha(s, sha) ==
    /\ Len(s) = IF Len(sha) < 7 THEN Len(sha) ELSE 7
    /\ \A i \in 1..Len(s) : s[i] = sha[i]

\* the line is the first line of the commit's message followed by its
\* abbreviated hash in parentheses
IsChangelogLine(line, commit) ==
    \E a \in 0..Len(line) : \E b \in 0..Len(line) :
        /\ Len(line) = Len(Bullet) + a + 2 + b + 1
        /\ SubSeq(line, 1, Len(Bullet)) = Bullet
        /\ IsFirstLine(SubSeq(line, Len(Bullet) + 1, Len(Bullet) + a), commit.message)
        /\ SubSeq(line, Len(Bullet) + a + 1, Len(Bullet) + a + 2) = <<" ", "(">>
        /\ IsShortSha(SubSeq(line, Len(Bullet) + a + 3, Len(Bullet) + a + 2 + b), commit.sha)
        /\ line[Len(line)] = ")"

\* C29: the changelog generated from a compare response of n commits has
\* exactly min(n, 20) lines, one per commit in response order, each the
\* first line of the commit message followed by the first 7 characters of
\* its hash in parentheses; for n = 0 it is the fixed placeholder, never an
\* empty text.
ChangelogLinesPerCommit ==
    probe.fn = "generateChangelogFromCommits" =>
        LET n == Len(probe.response)
            lines == LinesOf(probe.result)
        IN /\ probe.result # << >>
           /\ n = 0 => probe.result = NoCommitsFound
           /\ n > 0 =>
                 /\ Len(lines) = (IF n < 20 THEN n ELSE 20)
                 /\ \A k \in 1..Len(lines) : IsChangelogLine(lines[k], probe.response[k])

\* a response of more than 20 commits produced a changelog whose last line
\* is the twentieth commit's
ChangelogCapped ==
    /\ probe.fn = "generateChangelogFromCommits"
    /\ Len(probe.response) > 20
    /\ LET lines == LinesOf(probe.result)
       IN /\ Len(lines) = 20
          /\ IsChangelogLine(lines[20], probe.response[20])

\* C25: upsertRepository for a full name already in the directory refreshes
\* only the mutable fields and leaves the identity fields, the owning
\* profile and the hook id and status unchanged; for a new full name it
\* inserts a row with status "pending"; no other row changes.
UpsertRefreshesOrInserts ==
    probe.fn = "upsertRepository" =>
        LET in == probe.in
            old == probe.dir[in.repo]
            new == probe.result[in.repo]
        IN /\ \A q \in Repos \ {in.repo} : probe.result[q] = probe.dir[q]
           /\ new.present
           /\ new.description = in.description
           /\ new.archived = in.archived
           /\ new.disabled = in.disabled
           /\ new.chat_id = in.chatId
           /\ old.present =>
                 /\ new.id = old.id
                 /\ new.profile_owner = old.profile_owner
                 /\ new.fork = old.fork /\ new.private = old.private
                 /\ new.webhook_id = old.webhook_id
                 /\ new.webhook_status = old.webhook_status
           /\ ~ old.present =>
                 /\ new.id = in.id
                 /\ new.profile_owner = in.profileOwner
                 /\ new.fork = in.fork /\ new.private = in.private
                 /\ new.webhook_id = 0
                 /\ new.webhook_status = "pending"

\* the step is the end of a discovery started by POST /admin/discover
ManualDiscoveryStep == probe' # probe /\ probe'.fn = "triggerDiscovery"

\* the step upserts a discovered list as the startup code and the CLI do
UpsertStep ==
    \E found \in DiscoveryResults :
        \/ repositories' = UpsertAll(repositories, found, 1)
        \/ repositories' = MarkAllUnsupported(UpsertAll(repositories, found, 1), found, 1)

PagesRead(pages) ==
    {i \in 1..Len(pages) : \A j \in 1..(i - 1) : pages[j] = "more"}

\* the discovery of the profile fails: a page that is requested fails
ProfileFails(answer) == \E i \in PagesRead(answer.pages) : answer.pages[i] = "error"

\* ids of the listed repositories of a profile that pass the filters
IncludedIds(p, answer) ==
    LET listed == UNION {{PageRepos(p, i)[j] : j \in 1..Len(PageRepos(p, i))} :
                            i \in {i \in PagesRead(answer.pages) :
                                      answer.pages[i] \in {"more", "last"}}}
    IN {repo.id : repo \in {repo \in listed :
                               shouldIncludeRepo(repo, ConfigFilters, ConfigProfiles[p])}}

\* C26: when the discovery of one profile fails at any page, the batch does
\* not fail: every configured profile is visited in order and the list
\* returned holds the filtered repositories of every profile that
\* succeeded, in profile order, and nothing of a failed profile.
DiscoverAllSkipsFailedProfile ==
    probe.fn = "discoverAllRepositories" =>
        LET all == probe.result.allRepos
            visited == probe.result.visited
            OfProfile(p) == {k \in 1..Len(all) : all[k].profileOwner = p}
        IN /\ Len(visited) = NumProfiles
           /\ \A p \in 1..NumProfiles : visited[p].owner = p
           /\ \A p \in 1..NumProfiles :
                 IF ProfileFails(probe.answers[p])
                 THEN OfProfile(p) = {}
                 ELSE /\ {all[k].id : k \in OfProfile(p)} = IncludedIds(p, probe.answers[p])
                      /\ Cardinality(OfProfile(p)) = Cardinality(IncludedIds(p, probe.answers[p]))
           /\ \A k \in 1..Len(all) : ~ all[k].archived
           /\ \A j, k \in 1..Len(all) :
                 j < k => /\ all[j].profileOwner <= all[k].profileOwner
                          /\ all[j].id < all[k].id

\* the first profile failed on its second page and a later profile's
\* repositories were returned
LaterProfileDiscoveredAfterFailure ==
    /\ probe.fn = "discoverAllRepositories"
    /\ probe.answers[1].pages[1] = "more"
    /\ probe.answers[1].pages[2] = "error"
    /\ probe.result.allRepos # << >>
    /\ \A k \in 1..Len(probe.result.allRepos) : probe.result.allRepos[k].profileOwner = 2

\* the first attempt for a part that the provider accepts, 0 when it
\* accepts none of the three
FirstAccepted(resps) ==
    IF \E a \in 1..3 : resps[a] = "ok"
    THEN CHOOSE a \in 1..3 : resps[a] = "ok" /\ \A b \in 1..(a - 1) : resps[b] # "ok"
    ELSE 0

\* C31: the parts of a split message are sent strictly in their original
\* order, each through the retrying single-send path, and part k+1 is not
\* attempted until part k has been sent successfully.
PartsSentInOrder ==
    probe.fn = "sendParts" =>
        LET posts == probe.result.posts
            done == probe.result.delivered
            PostsFor(i) == {k \in 1..Len(posts) : posts[k].part = i}
        IN /\ \A j, k \in 1..Len(posts) :
                 j < k => \/ posts[j].part < posts[k].part
                          \/ /\ posts[j].part = posts[k].part
                             /\ posts[j].attempt < posts[k].attempt
           /\ \A i \in 1..Len(probe.answers) :
                 /\ PostsFor(i) # {} =>
                       /\ Cardinality(PostsFor(i)) =
                             (IF FirstAccepted(probe.answers[i]) = 0 THEN 3
                              ELSE FirstAccepted(probe.answers[i]))
                       /\ \A h \in 1..(i - 1) : FirstAccepted(probe.answers[h]) # 0
                 /\ (\A h \in 1..(i - 1) : FirstAccepted(probe.answers[h]) # 0)
                       => PostsFor(i) # {}
           /\ done = [k \in 1..Len(done) |-> k]
           /\ \A i \in 1..Len(probe.answers) :
                 (\E k \in 1..Len(done) : done[k] = i)
                    <=> \A h \in 1..i : FirstAccepted(probe.answers[h]) # 0
           /\ probe.result.ok <=> Len(done) = Len(probe.answers)

\* the second part was accepted on a retry and the third was sent after it
ThirdPartAfterRetriedSecond ==
    /\ probe.fn = "sendParts"
    /\ Len(probe.answers) >= 3
    /\ probe.answers[2] = <<"error", "429", "ok">>
    /\ probe.result.ok
    /\ \E k \in 1..Len(probe.result.posts) :
          probe.result.posts[k] = [part |-> 2, attempt |-> 3]

\* the first part the provider accepts at none of the three attempts, 0
\* when every part is accepted
FailedPart(answers) ==
    IF \E i \in 1..Len(answers) : FirstAccepted(answers[i]) = 0
    THEN CHOOSE i \in 1..Len(answers) :
            /\ FirstAccepted(answers[i]) = 0
            /\ \A h \in 1..(i - 1) : FirstAccepted(answers[h]) # 0
    ELSE 0

\* how often the part appears in the channel
TimesIn(channel, i) == Cardinality({k \in 1..Len(channel) : channel[k] = i})

\* C32: when part k > 1 of a split message fails after its retries, the
\* parts from k on are not sent, parts 1..k-1 stay delivered, the
\* notification fails without a ledger row, and a later retry of the same
\* release sends parts 1..k-1 to the channel again.
PartialDeliveryRepeated ==
    (probe.fn = "retryNotification" /\ FailedPart(probe.answers1) > 1) =>
        LET k == FailedPart(probe.answers1)
            run == probe.result
        IN /\ ~run.first.ok
           /\ run.first.delivered = [i \in 1..(k - 1) |-> i]
           /\ run.first.ledger = << >>
           /\ run.called
           /\ \A i \in 1..(k - 1) :
                 (FailedPart(probe.answers2) = 0 \/ FailedPart(probe.answers2) > i)
                    => TimesIn(run.channel, i) = 2
           /\ \A i \in k..Len(probe.answers1) : TimesIn(run.channel, i) <= 1
           /\ run.second.ok =>
                 /\ run.second.delivered = [i \in 1..Len(probe.answers1) |-> i]
                 /\ isReleaseProcessed(run.second.ledger, RetriedRelease.id,
                                       RetriedRelease.repo)

\* the third part failed and the retry delivered the whole message: the
\* first two parts are in the channel twice
FirstPartsDeliveredTwice ==
    /\ probe.fn = "retryNotification"
    /\ FailedPart(probe.answers1) = 3
    /\ probe.result.second.ok
    /\ probe.result.channel = <<1, 2, 1, 2, 3>>

\* C33: after a failed attempt k < 3 that is not a rate-limit answer the
\* client waits 1000 ms, then 2000 ms; after a rate-limit answer it waits
\* exactly the provider's retry-after seconds (5 s when absent) with no
\* exponential backoff, and the rate-limited attempt counts toward the
\* ceiling of three attempts like any other.
WaitsBetweenAttempts ==
    probe.fn = "sendSingleMessageWaits" =>
        LET resps == probe.resps
            run == probe.result
            Failed(k) == resps[k].status # "ok"
            \* the sleep that follows attempt k, 0 when there is none
            Expected(k) ==
                IF resps[k].status = "429"
                THEN IF resps[k].retryAfter = NoRetryAfter THEN 5000
                     ELSE resps[k].retryAfter * 1000
                ELSE IF k = 1 THEN 1000 ELSE IF k = 2 THEN 2000 ELSE 0
            Sleeping == {k \in 1..run.attempts :
                            Failed(k) /\ (resps[k].status = "429" \/ k < 3)}
        IN /\ run.attempts <= 3
           /\ run.attempts = (IF \E k \in 1..3 : ~Failed(k)
                              THEN CHOOSE k \in 1..3 :
                                      ~Failed(k) /\ \A j \in 1..(k - 1) : Failed(j)
                              ELSE 3)
           /\ Len(run.sleeps) = Cardinality(Sleeping)
           /\ \A k \in Sleeping :
                 run.sleeps[Cardinality({j \in Sleeping : j <= k})] = Expected(k)

\* a rate-limit answer without retry-after between two other failures: the
\* client slept 1000 ms, 5000 ms, and gave up after the third attempt
RateLimitedBetweenFailures ==
    /\ probe.fn = "sendSingleMessageWaits"
    /\ probe.resps[1].status = "error"
    /\ probe.resps[2] = [status |-> "429", retryAfter |-> NoRetryAfter]
    /\ probe.resps[3].status = "error"
    /\ probe.result = Waits(3, <<1000, 5000>>)

\* the changelog placed in the message, between its header and its footer
PlacedChangelog(message) ==
    SubSeq(message, Len(MessageHeader) + 1, Len(message) - Len(MessageFooter))

EndsWithMarker(changelog) ==
    /\ Len(changelog) >= Len(TruncationMarker)
    /\ SubSeq(changelog, Len(changelog) - Len(TruncationMarker) + 1, Len(changelog))
          = TruncationMarker

WithoutMarker(changelog) ==
    IF EndsWithMarker(changelog)
    THEN SubSeq(changelog, 1, Len(changelog) - Len(TruncationMarker))
    ELSE changelog

AbsentOrEmpty(body) == body = NullBody \/ body = << >>

\* C34 as stated: the changelog placed in the message is at most
\* maxChangelogLength characters, followed by the truncation marker exactly
\* when the body was longer; a body of at most maxChangelogLength
\* characters appears whole; an absent or empty body gives the placeholder.
ChangelogWithinMaximum ==
    probe.fn = "formatReleaseMessage" =>
        LET body == probe.body
            placed == PlacedChangelog(probe.result)
        IN IF AbsentOrEmpty(body) THEN placed = NoChangelogProvided
           ELSE /\ Len(WithoutMarker(placed)) <= MaxChangelogLength
                /\ EndsWithMarker(placed) <=> Len(body) > MaxChangelogLength
                /\ Len(body) <= MaxChangelogLength => placed = body

\* the entity a character of the body is shown as
Entity(c) == IF c = "&" THEN <<"&", "a", "m", "p", ";">>
             ELSE IF c = "<" THEN <<"&", "l", "t", ";">>
             ELSE <<c>>
RECURSIVE Shown(_)
Shown(text) == IF text = << >> THEN << >> ELSE Entity(Head(text)) \o Shown(Tail(text))

\* C34, amended: the changelog placed in the message shows the first
\* maxChangelogLength characters of the body, each special character as its
\* HTML entity (so the text placed can be longer than maxChangelogLength),
\* followed by the truncation marker exactly when the body was longer; a
\* shorter body is shown whole; an absent or empty body gives the
\* placeholder.
ChangelogShowsTruncatedBody ==
    probe.fn = "formatReleaseMessage" =>
        LET body == probe.body
            placed == PlacedChangelog(probe.result)
            kept == IF Len(body) <= MaxChangelogLength THEN Len(body)
                    ELSE MaxChangelogLength
        IN IF AbsentOrEmpty(body) THEN placed = NoChangelogProvided
           ELSE /\ WithoutMarker(placed) = Shown(SubSeq(body, 1, kept))
                /\ EndsWithMarker(placed) <=> Len(body) > MaxChangelogLength

\* a body longer than the maximum was cut and the text placed before the
\* marker is longer than the maximum
EscapedChangelogLongerThanMaximum ==
    /\ probe.fn = "formatReleaseMessage"
    /\ probe.body # NullBody
    /\ Len(probe.body) > MaxChangelogLength
    /\ EndsWithMarker(PlacedChangelog(probe.result))
    /\ Len(WithoutMarker(PlacedChangelog(probe.result))) > MaxChangelogLength

\* the positions of the listing at which sendReleaseNotification was called
CalledPositions(calls) == {calls[i].position : i \in 1..Len(calls)}

\* the release at position k is in the ledger when the loop reaches it: it
\* was there at the start of the check, or a push delivery recorded it while
\* an earlier notification of this check was awaited
InLedgerWhenExamined(k, rels, S, arrival, calls) ==
    \/ rels[k].id \in S
    \/ /\ arrival.id = rels[k].id
       /\ arrival.at < k
       /\ arrival.at \in CalledPositions(calls)

CycleNeverAborted ==
    probe.fn = "pollRepositories" =>
        LET cycle == probe.cycle
            result == probe.result
        IN /\ result.checked = [i \in 1..Len(cycle) |-> i]
           /\ Len(result.results) = Len(cycle)
           /\ \A i \in 1..Len(cycle) :
                 LET rels == fetchLatestReleasesResult(cycle[i].answer)
                 IN [k \in 1..Len(result.results[i].calls) |-> result.results[i].calls[k].id]
                       = [k \in 1..Len(rels) |-> rels[k].id]

\* the first repository's first delivery failed, its second release was
\* still notified and the second repository was checked and notified
CycleContinuedAfterFailure ==
    /\ probe.fn = "pollRepositories"
    /\ Len(probe.cycle) = 2
    /\ Len(probe.cycle[1].outcomes) = 2
    /\ ~probe.cycle[1].outcomes[1]
    /\ Len(probe.result.results[1].calls) = 2
    /\ probe.result.results[1].newReleases = 1
    /\ probe.result.checked = <<1, 2>>
    /\ probe.result.results[2].newReleases = 1

\* the number of FALSE entries of a sequence of booleans
RECURSIVE CountFalse(_)
CountFalse(outcomes) ==
    IF outcomes = << >> THEN 0
    ELSE (IF Head(outcomes) THEN 0 ELSE 1) + CountFalse(Tail(outcomes))

\* the repositories of the cycle whose listing request failed, and the
\* notifications of the cycle that failed
FailedListings(cycle) == {i \in 1..Len(cycle) : cycle[i].answer.status = "error"}
RECURSIVE FailedNotifications(_)
FailedNotifications(cycle) ==
    IF cycle = << >> THEN 0
    ELSE CountFalse(Head(cycle).outcomes) + FailedNotifications(Tail(cycle))

\* C37: every per-repository error of a poll cycle is counted: the cycle's
\* error total is the number of repositories whose release listing could
\* not be fetched plus the number of sendReleaseNotification calls that
\* failed.
CycleCountsEveryError ==
    probe.fn = "pollRepositories" =>
        probe.result.totalErrors
           = Cardinality(FailedListings(probe.cycle)) + FailedNotifications(probe.cycle)

\* C38: at most one poll cycle is in flight at any time: a cycle started by
\* the periodic timer or by the one-off startup timer never begins while an
\* earlier cycle is still running.
AtMostOneCycleInFlight ==
    \A p, q \in DOMAIN poll :
        poll[p].pc # "idle" /\ poll[q].pc # "idle" => p = q

\* C39: after the server starts listening, the poll scheduler is eventually
\* started, whatever the outcome of discovery, of the upserts and of the
\* sync, and it is started only after the initial discovery and sync have
\* finished.
SchedulerEventuallyStarted ==
    /\ <>pollingTask
    /\ [](pollingTask => startup.pc = "done")

\* C40: sync is idempotent against an unchanged provider: two runs in
\* sequence for the same repository end with the same status and the same
\* registration id, and when the first run ended active the second sends
\* the listing request only, no create and no update.
SyncIdempotent ==
    probe.fn = "syncWebhookTwice" =>
        LET first == probe.result.first
            second == probe.result.second
        IN /\ second.status = first.status
           /\ second.hookId = first.hookId
           /\ first.status = "active" =>
                 /\ "create" \notin {second.calls[i] : i \in 1..Len(second.calls)}
                 /\ "update" \notin {second.calls[i] : i \in 1..Len(second.calls)}

\* the first run created the registration beside a foreign hook, the second
\* run found it
SecondRunFoundCreatedHook ==
    /\ probe.fn = "syncWebhookTwice"
    /\ Len(probe.hooks) = 1
    /\ probe.result.first = SyncResult("active", 2, <<"list", "create">>)
    /\ probe.result.second = SyncResult("active", 2, <<"list">>)
====
